---- MODULE Spec2Model ----
(***************************************************************************)
(* Session capture, crash recovery and compression orchestration of memex. *)
(*                                                                         *)
(* One project directory.  Two operating-system processes may run memex    *)
(* commands on it at the same time: "cli" runs the session commands        *)
(* (`memex start`, `memex resume`), "aux" runs the helper commands         *)
(* (`memex snapshot`, `memex compress`, `memex hook:post`, `memex forget`) *)
(* from another terminal or from an agent hook.  One session per project   *)
(* at a time is the operator convention the program relies on, so only     *)
(* "cli" wraps an agent.  The markers, the session table, the log files    *)
(* and the project row are the state that crosses a process boundary.      *)
(* A step of a process is the code it runs between two awaits (JavaScript  *)
(* runs it to completion); the awaits are the wrapped child (wrapProcess)  *)
(* and the summarizer call (chat).                                         *)
(***************************************************************************)
EXTENDS Integers, FiniteSets, Sequences, TLC

\* ---- bounds ------------------------------------------------------------
MaxSessions == 2

\* ---- program constants -------------------------------------------------
MinTranscript == 50

\* the catch block compresses only when logger.getEntryCount() > 3
MinEntries == 3

Sessions == 1..MaxSessions
Procs    == {"cli", "aux"}
\* trimmed lengths of a cleaned transcript that the model distinguishes
Lens     == {0, MinTranscript - 1, MinTranscript}

NoMarker == [kind |-> "none", sid |-> 0, path |-> "none"]
Corrupt  == [kind |-> "corrupt", sid |-> 0, path |-> "none"]
\* {sessionId, rawLogPath, logPath}: path tells which file rawLogPath names,
\* the recorder's <ts>-raw.txt ("raw") or the structured <ts>.jsonl ("jsonl")
Marker(s, path) == [kind |-> "marker", sid |-> s, path |-> path]

NoEvent == [type |-> "none", sid |-> 0, notice |-> FALSE]
\* the wrapProcess of session s did not resolve: it threw, or the process died
ExitEvent(type, s) == [type |-> type, sid |-> s, notice |-> FALSE]
NoRec   == [sid |-> 0, out |-> "none"]

VARIABLES
    pending,     \* .memex/pending-compression.json
    active,      \* .memex/active-session.json
    sess,        \* sessions table: id -> [st, summary]
    rawlog,      \* .memex/sessions/<ts>-raw.txt of each session: [exists, len]
    mem,         \* project row of the database: [exists]
    pc,          \* position of each process
    cmd,         \* session command "cli" is running
    sid,         \* sessionId local of start / resume
    abrupt,      \* abruptShutdown local of wrapWithScript / wrapWithSpawn
    strategy,    \* capture strategy wrapProcess is running the child with
    inflight,    \* compressSession invocations awaiting chat()
    \* ---- history variables (not program state) -----------------------
    ev,          \* what the last step did in checkAndRunPendingCompression / runCompression
    rec,         \* the recovery the startup check of "cli" set out on, and its outcome
    cleared,     \* the marker file was last removed by checkAndRunPendingCompression
    failed,      \* sessions whose summarizer call has failed (recorded in SpecRetry)
    \* ---- one session's transcript on its way into memory (SpecSkip) -----
    transcript,  \* the cleaned transcript wrapProcess resolves with
    phase,       \* how far the end of that session has come
    prompt,      \* the transcript text inside the message handed to chat()
    stored,      \* what the database holds of it: memory fields, conversation turns
    \* ---- the content of the database (SpecFocus, SpecSessions) ----------
    db,          \* project row (exists, focus, history) and session rows with turns
    cur,         \* id of the session the running start / resume created, 0 if none
    pendSid,     \* sessionId of the pending marker, 0 if there is none
    outcome,     \* history: what the last memory operation did
    \* ---- one run of wrapProcess (SpecSupervisor) ------------------------
    sup,         \* the supervisor: strategy, signal listeners, child, result
    \* ---- one call of buildContext (SpecContext) -------------------------
    ctx,         \* its arguments and what it returned
    \* ---- one compression with a webhook configured (SpecWebhook) --------
    hook,        \* webhook settings, what runCompression did and reported
    \* ---- one SessionLogger (SpecLogger) ---------------------------------
    logger,      \* its input buffer and entry buffer, and the last projection
    \* ---- the project files `memex resume` touches (SpecResume) ----------
    proj         \* CLAUDE.md, RESUME.md, .mcp.json and the locals of resume

sessionVars == <<pending, active, sess, rawlog, mem, pc, cmd, sid, abrupt,
                 strategy, inflight, ev, rec, cleared>>

skipVars == <<transcript, phase, prompt, stored>>

memVars == <<db, cur, pendSid, outcome>>

procVars == <<sup, ctx>>

lateVars == <<hook, logger, proj>>

data == <<skipVars, memVars, procVars, lateVars>>

vars == <<sessionVars, failed, data>>

\* what the steps of the session machine leave alone
extra == <<failed, data>>

locals == <<cmd, sid, abrupt, strategy>>

\* nothing recorded yet
NothingStored == [fields |-> {}, turns |-> <<>>]

\* no transcript is on its way
SkipIdle ==
    /\ transcript = <<>>
    /\ phase = "off"
    /\ prompt = <<>>
    /\ stored = NothingStored

SessionInit ==
    /\ pending = NoMarker
    /\ active = NoMarker
    /\ sess = [s \in Sessions |-> [st |-> "none", summary |-> ""]]
    /\ rawlog = [s \in Sessions |-> [exists |-> FALSE, len |-> 0]]
    /\ mem = [exists |-> FALSE]
    /\ pc = [p \in Procs |-> "idle"]
    /\ cmd = "none"
    /\ sid = 0
    /\ abrupt = FALSE
    /\ strategy = "none"
    /\ inflight = {}
    /\ ev = NoEvent
    /\ rec = NoRec
    /\ cleared = FALSE
    /\ failed = {}

\* a database without project row and without sessions
EmptyDb == [exists |-> FALSE, focus |-> 0, history |-> <<>>, rows |-> <<>>]

NoOutcome == [kind |-> "none", sid |-> 0, pushed |-> FALSE, reason |-> "none",
              omitted |-> FALSE, next |-> 0]

MemIdle ==
    /\ db = EmptyDb
    /\ cur = 0
    /\ pendSid = 0
    /\ outcome = NoOutcome

\* wrapProcess has not been called
SupIdle ==
    [pc |-> "idle", child |-> "none", listeners |-> {}, leftover |-> {},
     finishing |-> FALSE,
     abruptShutdown |-> FALSE, kills |-> 0, sigs |-> 0, spawned |-> <<>>,
     logged |-> FALSE, scriptFailed |-> FALSE, exec |-> "unset",
     error |-> [kind |-> "none", path |-> FALSE, remedy |-> FALSE],
     result |-> "none", handoff |-> "none",
     env |-> {}, profile |-> {}, unset |-> {}, agentEnv |-> {}]

\* buildContext has not been called
CtxIdle ==
    [called |-> FALSE,
     memory |-> [nameLen |-> 0, pendingTasks |-> <<>>, gotchas |-> <<>>,
                 keyDecisions |-> <<>>, importantFiles |-> <<>>],
     opts |-> [tier |-> 0, maxTokens |-> 0, focus |-> <<>>],
     out |-> [lines |-> <<>>, partial |-> 0, len |-> 0, notice |-> FALSE]]

ProcIdle ==
    /\ sup = SupIdle
    /\ ctx = CtxIdle

\* no webhook is configured and no compression has run
HookIdle ==
    [pc |-> "idle", env |-> "", config |-> "absent", event |-> "none",
     saved |-> FALSE, finalized |-> FALSE, marker |-> FALSE,
     webhook |-> [state |-> "none", sent |-> FALSE, answered |-> FALSE],
     reported |-> <<>>]

\* a SessionLogger that has logged nothing
LoggerIdle ==
    [inputBuffer |-> <<>>, buffer |-> <<>>,
     last |-> [op |-> "new", input |-> <<>>, before |-> 0, returned |-> <<>>]]

\* a file that does not exist, and a project no resume has touched
NoFile == [exists |-> FALSE, text |-> <<>>]

NoMcpJson == [exists |-> FALSE, parses |-> FALSE, servers |-> {}]

FilesIdle ==
    [pc |-> "idle", claudeMd |-> NoFile, resumeMd |-> FALSE, mcpJson |-> NoMcpJson,
     memory |-> FALSE, command |-> "none", useMcp |-> FALSE, path |-> "none",
     injectedViaClaudeMd |-> FALSE, originalClaudeMd |-> NoFile,
     wroteProjectMcpJson |-> FALSE,
     before |-> [claudeMd |-> NoFile, mcpJson |-> NoMcpJson]]

LateIdle ==
    /\ hook = HookIdle
    /\ logger = LoggerIdle
    /\ proj = FilesIdle

Init == SessionInit /\ SkipIdle /\ MemIdle /\ ProcIdle /\ LateIdle

\* ---- files and markers -------------------------------------------------

\* the structured log is created with the SessionLogger and lives until
\* `memex forget` removes the sessions directory together with the rows
JsonlExists(s) == sess[s].st \in {"open", "ended"}

DirExists == \E t \in Sessions : JsonlExists(t) \/ rawlog[t].exists

\* the file a marker's rawLogPath names; the structured log of a session
\* recorded by the fallback strategy is never fed and stays empty
MarkerLog(m) ==
    IF m.path = "jsonl"
    THEN [exists |-> JsonlExists(m.sid), len |-> 0]
    ELSE [exists |-> rawlog[m.sid].exists, len |-> rawlog[m.sid].len]

\* parseRawLog: "" when the file is missing, else its cleaned text
parseRawLog(f) == IF f.exists THEN f.len ELSE 0

\* variant: the threshold test off by one
TooShortOffByOne(len) == len < MinTranscript - 1

\* `!transcript || transcript.trim().length < 50`
TooShort(len) == len < MinTranscript

\* UPDATE sessions SET ended_at, summary, log_file WHERE id = ?
finalizeSession(S, id, summary) ==
    IF id \in Sessions /\ S[id].st \in {"open", "ended"}
    THEN [S EXCEPT ![id] = [st |-> "ended", summary |-> summary]]
    ELSE S

writePendingCompression(s, path) == Marker(s, path)

clearPendingCompression == NoMarker

writeActiveSession(s, path) == Marker(s, path)

\* variant: the unlink is skipped
clearActiveSessionSkipped == active

clearActiveSession == NoMarker

\* the `finally` of resume clears the active marker once more; start has none
FinallyActive(a) == IF cmd = "resume" THEN clearActiveSession ELSE a

\* ---- compressSession ---------------------------------------------------

\* compressSession up to `await chat(...)`: existing = loadMemory ?? initMemory
CompressStart(p, kind, len, src, fin) ==
    /\ mem' = [mem EXCEPT !.exists = TRUE]
    /\ inflight' = inflight \cup
         {[proc |-> p, kind |-> kind, src |-> src, fin |-> fin, len |-> len]}

\* compressSession after chat settled: saveMemory(updated) when the reply
\* parses, saveMemory(existing) with a failure entry when it does not, and
\* nothing when chat itself threw
CompressSaved(c, out) ==
    IF out \in {"ok", "garbage"} THEN [exists |-> TRUE] ELSE mem

\* ---- runCompression ----------------------------------------------------

RunEvent(len, fin) ==
    [type |-> IF TooShort(len) THEN "runshort" ELSE "runlong", sid |-> fin, notice |-> FALSE]

\* runCompression up to its await; pend is the marker file as the caller left it
RunCompression(p, kind, len, src, fin, pend) ==
    IF TooShort(len)
    THEN /\ sess' = finalizeSession(sess, fin, "tooShort")
         /\ pending' = clearPendingCompression
         /\ UNCHANGED <<mem, inflight>>
    ELSE /\ CompressStart(p, kind, len, src, fin)
         /\ sess' = sess
         /\ pending' = pend

\* ---- checkAndRunPendingCompression -------------------------------------

\* variant: only the JSON is checked, not the raw log it names
StaleMarkerJsonOnly(m) == m.kind = "corrupt"

\* the marker cannot be used: not valid JSON, or its raw log is gone
StaleMarker(m) == m.kind = "corrupt" \/ ~MarkerLog(m).exists

\* variant: the notice is printed before the early returns
NoticePrintedFirst(m) == TRUE

\* "Recovering interrupted session from last run..." is printed
NoticePrinted(m) == m.kind = "marker" /\ ~StaleMarker(m)

CheckTypes == {"nomarker", "stale", "recshort", "reclong"}

CheckEvent(type, s) ==
    [type |-> type, sid |-> s, notice |-> NoticePrinted(pending)]

\* sets pending, sess, mem, inflight, ev, cleared; r is the recovery it set out on
CheckPending(p, r) ==
    IF pending.kind = "none"
    THEN /\ ev' = CheckEvent("nomarker", 0)
         /\ r = NoRec
         /\ UNCHANGED <<pending, sess, mem, inflight, cleared>>
    ELSE IF StaleMarker(pending)
    THEN /\ ev' = CheckEvent("stale", pending.sid)
         /\ r = NoRec
         /\ pending' = NoMarker
         /\ cleared' = TRUE
         /\ UNCHANGED <<sess, mem, inflight>>
    ELSE LET s   == pending.sid
             len == parseRawLog(MarkerLog(pending))
         IN  IF len >= MinTranscript
             THEN /\ ev' = CheckEvent("reclong", s)
                  /\ r = [sid |-> s, out |-> "inflight"]
                  /\ RunCompression(p, "recovery", len, s, s, pending)
                  /\ cleared' = cleared
             ELSE /\ ev' = CheckEvent("recshort", s)
                  /\ r = [sid |-> s, out |-> "short"]
                  /\ sess' = finalizeSession(sess, s, "tooShort")
                  /\ pending' = clearPendingCompression
                  /\ cleared' = TRUE
                  /\ UNCHANGED <<mem, inflight>>

\* variant: checkAndRunPendingCompression is called without `await`
RecoveryNotAwaited(p) == TRUE

\* `await checkAndRunPendingCompression(...)`: the caller goes on only when
\* the recovery it started is no longer awaiting the summarizer
RecoveryAwaited(p) == \A c \in inflight : ~(c.proc = p /\ c.kind = "recovery")

\* wrapProcess reports the log paths through onSessionStart as soon as they
\* are known, before the child interacts
SessionStartNotified == TRUE

\* ---- memex start / memex resume ----------------------------------------

Created == {s \in Sessions : sess[s].st # "none"}

Done(p) ==
    /\ pc' = [pc EXCEPT ![p] = "idle"]
    /\ IF p = "cli"
       THEN /\ cmd' = "none" /\ sid' = 0 /\ abrupt' = FALSE
            /\ strategy' = "none"
       ELSE UNCHANGED locals

Goto(p, l) ==
    /\ pc' = [pc EXCEPT ![p] = l]
    /\ UNCHANGED locals

\* wrapProcess is over (its locals are gone); start / resume awaits runCompression
AwaitCompression(p) ==
    /\ pc' = [pc EXCEPT ![p] = "compress"]
    /\ abrupt' = FALSE
    /\ strategy' = "none"
    /\ UNCHANGED <<cmd, sid>>

\* memoryExists ? loadMemory : initMemory
StartBegin(p) ==
    /\ p = "cli" /\ pc[p] = "idle"
    /\ pc' = [pc EXCEPT ![p] = "check"]
    /\ cmd' = "start"
    /\ mem' = [mem EXCEPT !.exists = TRUE]
    /\ ev' = NoEvent
    /\ rec' = NoRec
    /\ UNCHANGED <<pending, active, sess, rawlog, sid, abrupt, strategy,
                   inflight>>
    /\ UNCHANGED <<cleared, extra>>

\* loadMemory, build the context block from it (CLAUDE.md hint or RESUME.md),
\* initMemory when there was none
ResumeBegin(p) ==
    /\ p = "cli" /\ pc[p] = "idle"
    /\ pc' = [pc EXCEPT ![p] = "check"]
    /\ cmd' = "resume"
    /\ mem' = [mem EXCEPT !.exists = TRUE]
    /\ ev' = NoEvent
    /\ rec' = NoRec
    /\ UNCHANGED <<pending, active, sess, rawlog, sid, abrupt, strategy,
                   inflight>>
    /\ UNCHANGED <<cleared, extra>>

StartupCheck(p) ==
    /\ p = "cli" /\ pc[p] = "check"
    /\ Goto(p, "create")
    /\ \E r \in {NoRec} \cup {[sid |-> s, out |-> o] : s \in Sessions, o \in {"inflight", "short"}} :
         /\ CheckPending(p, r)
         /\ rec' = r
    /\ UNCHANGED <<active, rawlog, extra>>

\* createSession + new SessionLogger
CreateSession(p) ==
    /\ p = "cli" /\ pc[p] = "create"
    /\ RecoveryAwaited(p)
    /\ Cardinality(Created) < MaxSessions
    /\ LET s == Cardinality(Created) + 1
       IN  /\ sess' = [sess EXCEPT ![s] = [st |-> "open", summary |-> ""]]
           /\ sid' = s
    /\ mem' = [mem EXCEPT !.exists = TRUE]
    /\ pc' = [pc EXCEPT ![p] = "launch"]
    /\ ev' = NoEvent
    /\ UNCHANGED <<pending, active, rawlog, cmd, abrupt, strategy,
                   inflight, rec>>
    /\ UNCHANGED <<cleared, extra>>

\* wrapProcess starts the child with the recorder, or with the direct-spawn
\* fallback when the recorder cannot start, and reports the log paths
Launch(p) ==
    /\ p = "cli" /\ pc[p] = "launch"
    /\ \E st \in {"script", "spawn"} :
         /\ strategy' = st
         /\ rawlog' = IF st = "script"
                      THEN [rawlog EXCEPT ![sid] = [exists |-> DirExists, len |-> 0]]
                      ELSE rawlog
         /\ active' = IF SessionStartNotified
                      THEN writeActiveSession(sid, IF st = "script" THEN "raw" ELSE "jsonl")
                      ELSE active
    /\ pc' = [pc EXCEPT ![p] = "running"]
    /\ ev' = NoEvent
    /\ UNCHANGED <<pending, sess, mem, cmd, sid, abrupt, inflight, rec>>
    /\ UNCHANGED <<cleared, extra>>

\* the recorder tees the child's I/O into the raw capture file
Capture(p) ==
    /\ p = "cli" /\ pc[p] = "running"
    /\ strategy = "script" /\ rawlog[sid].exists
    /\ \E n \in Lens :
         /\ n > rawlog[sid].len
         /\ rawlog' = [rawlog EXCEPT ![sid].len = n]
    /\ ev' = NoEvent
    /\ UNCHANGED <<pending, active, sess, mem, pc, locals, inflight, rec>>
    /\ UNCHANGED <<cleared, extra>>

\* SIGHUP / SIGINT / SIGTERM while the child runs: gracefulShutdown
Signal(p) ==
    /\ p = "cli" /\ pc[p] = "running"
    /\ ~abrupt
    /\ abrupt' = TRUE
    /\ ev' = NoEvent
    /\ UNCHANGED <<pending, active, sess, rawlog, mem, pc, cmd, sid, strategy,
                   inflight, rec>>
    /\ UNCHANGED <<cleared, extra>>

\* what wrapProcess resolves with: rawLogPath, and as transcript
\* parseScriptLog(rawLogPath) or the transcript of the never fed logger
ResultPath == IF strategy = "script" THEN "raw" ELSE "jsonl"

ResultTranscript == parseRawLog(MarkerLog(Marker(sid, ResultPath)))

\* the child closes, wrapProcess resolves, and the try block of start/resume
\* runs up to `await compressSession`
ChildExit(p) ==
    /\ p = "cli" /\ pc[p] = "running"
    /\ LET len  == ResultTranscript
           pend == writePendingCompression(sid, ResultPath)
       IN  /\ active' = clearActiveSession
           /\ RunCompression(p, "sessionEnd", len, sid, sid, pend)
           /\ ev' = RunEvent(len, sid)
           /\ IF TooShort(len) THEN Done(p) /\ rec' = NoRec
                              ELSE AwaitCompression(p) /\ rec' = rec
    /\ UNCHANGED rawlog
    /\ cleared' = FALSE
    /\ UNCHANGED extra

\* wrapProcess throws before anything ran (command not executable, or both
\* strategies failed to spawn): the logger is empty, the catch block only
\* clears the active marker
LaunchFails(p) ==
    /\ p = "cli" /\ pc[p] = "launch"
    /\ active' = clearActiveSession
    /\ Done(p)
    /\ rec' = NoRec
    /\ ev' = ExitEvent("threw", sid)
    /\ UNCHANGED <<pending, sess, rawlog, mem, inflight>>
    /\ UNCHANGED <<cleared, extra>>

\* the supervisor feeds the transcript logger while the child runs, so the
\* logger may hold entries when wrapProcess rejects
LoggerFedWhileRunning == TRUE

\* wrapProcess rejects while the child was running (a spawn 'error' event):
\* the catch block compresses what the logger holds when it has more than
\* three entries
WrapRejects(p) ==
    /\ p = "cli" /\ pc[p] = "running"
    /\ active' = clearActiveSession
    /\ \E entries \in IF LoggerFedWhileRunning THEN {0, MinEntries + 1} ELSE {0},
          len \in Lens \ {0} :
         IF entries > MinEntries
         THEN /\ RunCompression(p, "catch", len, sid, sid, pending)
              /\ ev' = RunEvent(len, sid)
              /\ IF TooShort(len) THEN Done(p) /\ rec' = NoRec
                                 ELSE AwaitCompression(p) /\ rec' = rec
         ELSE /\ Done(p)
              /\ rec' = NoRec
              /\ ev' = ExitEvent("threw", sid)
              /\ UNCHANGED <<pending, sess, mem, inflight>>
    /\ UNCHANGED <<rawlog>>
    /\ UNCHANGED <<cleared, extra>>

\* the machine goes down while fs.writeFileSync is writing the marker: the
\* file is left with a prefix of the JSON text
TornMarkerWrite(p) ==
    /\ p = "cli" /\ pc[p] = "running"
    /\ active' = clearActiveSession
    /\ pending' = Corrupt
    /\ Done(p)
    /\ rec' = NoRec
    /\ ev' = ExitEvent("crashed", sid)
    /\ UNCHANGED <<sess, rawlog, mem, inflight>>
    /\ cleared' = FALSE
    /\ UNCHANGED extra

\* SIGKILL, or a second SIGHUP/SIGTERM/SIGINT once the handlers are removed:
\* the process ends where it stands, nothing of its code runs any more
Kill(p) ==
    /\ pc[p] # "idle"
    /\ Done(p)
    /\ rec' = IF p = "cli" THEN NoRec ELSE rec
    /\ inflight' = {c \in inflight : c.proc # p}
    /\ ev' = NoEvent
    /\ UNCHANGED <<pending, active, sess, rawlog, mem>>
    /\ UNCHANGED <<cleared, extra>>

\* ---- the summarizer call settles ---------------------------------------

Outcomes == {"ok", "garbage", "throw"}

RunCompressionKinds == {"sessionEnd", "catch", "recovery", "manual", "hookLatest"}

\* variant: the raw capture is deleted once it has been compressed
SettleDiscardingRaw(c, out) ==
    /\ c \in inflight
    /\ inflight' = inflight \ {c}
    /\ mem' = CompressSaved(c, out)
    /\ sess' = IF out = "ok" /\ c.kind # "snapshot"
               THEN finalizeSession(sess, c.fin, "ai") ELSE sess
    /\ pending' = IF (c.kind \in RunCompressionKinds /\ out = "ok") \/ c.kind = "recovery"
                  THEN clearPendingCompression ELSE pending
    /\ active' = CASE c.kind = "hookActive" /\ out = "ok" -> clearActiveSession
                   [] c.kind \in {"sessionEnd", "catch"}  -> FinallyActive(active)
                   [] OTHER                               -> active
    /\ rec' = CASE c.proc # "cli"       -> rec
                [] c.kind = "recovery" -> [rec EXCEPT !.out = IF out = "ok" THEN "ok" ELSE "failed"]
                [] OTHER               -> NoRec
    /\ ev' = NoEvent
    /\ IF c.kind = "recovery" /\ c.proc = "cli"
       THEN UNCHANGED <<pc, locals>>
       ELSE Done(c.proc)
    /\ rawlog' = IF out = "ok" /\ c.src \in Sessions
                 THEN [rawlog EXCEPT ![c.src] = [exists |-> FALSE, len |-> 0]]
                 ELSE rawlog
    /\ cleared' = (c.kind = "recovery" \/ cleared)

\* compressSession after `await chat(...)` and the rest of its caller
Settle(c, out) ==
    /\ c \in inflight
    /\ inflight' = inflight \ {c}
    /\ mem' = CompressSaved(c, out)
    /\ sess' = IF out = "ok" /\ c.kind # "snapshot"
               THEN finalizeSession(sess, c.fin, "ai") ELSE sess
    /\ pending' = IF (c.kind \in RunCompressionKinds /\ out = "ok") \/ c.kind = "recovery"
                  THEN clearPendingCompression ELSE pending
    /\ active' = CASE c.kind = "hookActive" /\ out = "ok" -> clearActiveSession
                   [] c.kind \in {"sessionEnd", "catch"}  -> FinallyActive(active)
                   [] OTHER                               -> active
    /\ rec' = CASE c.proc # "cli"       -> rec
                [] c.kind = "recovery" -> [rec EXCEPT !.out = IF out = "ok" THEN "ok" ELSE "failed"]
                [] OTHER               -> NoRec
    /\ ev' = NoEvent
    /\ IF c.kind = "recovery" /\ c.proc = "cli"
       THEN UNCHANGED <<pc, locals>>
       ELSE Done(c.proc)
    /\ UNCHANGED <<rawlog>>
    /\ cleared' = (c.kind = "recovery" \/ cleared)

\* chat() answers well, answers with something that does not parse, or throws
ChatSettles ==
    /\ \E c \in inflight, out \in Outcomes : Settle(c, out)
    /\ UNCHANGED extra

\* chat() answers well
ChatAnswers ==
    /\ \E c \in inflight : Settle(c, "ok")
    /\ UNCHANGED extra

\* chat() answers with something that does not parse, or throws; the run
\* remembers the session whose own compression (at its end, or recovered at a
\* later startup) failed
ChatFails ==
    /\ \E c \in inflight, out \in Outcomes \ {"ok"} :
         /\ Settle(c, out)
         /\ failed' = IF c.kind \in {"sessionEnd", "catch", "recovery"}
                       THEN failed \cup {c.src} ELSE failed
    /\ UNCHANGED data

\* ---- helper commands, run from another terminal ------------------------

Max(S) == CHOOSE x \in S : \A y \in S : y <= x

\* the *-raw.txt files of .memex/sessions/
RawFiles == {s \in Sessions : rawlog[s].exists}

\* the rows listSessions can return
Rows == {s \in Sessions : sess[s].st \in {"open", "ended"}}

\* memex snapshot -> runSnapshotCompression
Snapshot(p) ==
    /\ p = "aux" /\ pc[p] = "idle"
    /\ active.kind = "marker"
    /\ MarkerLog(active).exists
    /\ LET len == parseRawLog(MarkerLog(active))
       IN  /\ len >= MinTranscript
           /\ CompressStart(p, "snapshot", len, active.sid, 0)
    /\ pc' = [pc EXCEPT ![p] = "auxwait"]
    /\ ev' = NoEvent
    /\ UNCHANGED <<pending, active, sess, rawlog, locals, rec>>
    /\ UNCHANGED <<cleared, extra>>

\* memex compress
Compress(p) ==
    /\ p = "aux" /\ pc[p] = "idle"
    /\ DirExists
    /\ LET len == IF RawFiles # {} THEN rawlog[Max(RawFiles)].len ELSE 0
           src == IF RawFiles # {} THEN Max(RawFiles) ELSE 0
           fin == IF Rows # {} /\ sess[Max(Rows)].st = "open" THEN Max(Rows) ELSE 0
       IN  /\ RunCompression(p, "manual", len, src, fin, pending)
           /\ ev' = RunEvent(len, fin)
           /\ pc' = [pc EXCEPT ![p] = IF TooShort(len) THEN "idle" ELSE "auxwait"]
    /\ UNCHANGED <<active, rawlog, locals, rec>>
    /\ UNCHANGED <<cleared, extra>>

\* memex hook:post, a pending marker exists
HookPostPending(p) ==
    /\ p = "aux" /\ pc[p] = "idle"
    /\ pending.kind # "none"
    /\ \E r \in {NoRec} \cup {[sid |-> s, out |-> o] : s \in Sessions, o \in {"inflight", "short"}} :
         /\ CheckPending(p, r)
         /\ pc' = [pc EXCEPT ![p] = IF r.out = "inflight" THEN "auxwait" ELSE "idle"]
    /\ UNCHANGED <<active, rawlog, locals, rec, extra>>

\* memex hook:post, no pending marker, an active session whose raw log exists
HookPostActive(p) ==
    /\ p = "aux" /\ pc[p] = "idle"
    /\ pending.kind = "none"
    /\ active.kind = "marker" /\ MarkerLog(active).exists
    /\ LET len == parseRawLog(MarkerLog(active))
       IN  IF len >= MinTranscript
           THEN /\ CompressStart(p, "hookActive", len, active.sid, active.sid)
                /\ pc' = [pc EXCEPT ![p] = "auxwait"]
                /\ active' = active
           ELSE /\ active' = clearActiveSession
                /\ UNCHANGED <<mem, inflight, pc>>
    /\ ev' = NoEvent
    /\ UNCHANGED <<pending, sess, rawlog, locals, rec>>
    /\ UNCHANGED <<cleared, extra>>

\* memex hook:post, neither: compress the latest raw log
HookPostLatest(p) ==
    /\ p = "aux" /\ pc[p] = "idle"
    /\ pending.kind = "none"
    /\ ~(active.kind = "marker" /\ MarkerLog(active).exists)
    /\ RawFiles # {}
    /\ LET len == rawlog[Max(RawFiles)].len
       IN  /\ len >= MinTranscript
           /\ RunCompression(p, "hookLatest", len, Max(RawFiles), 0, pending)
           /\ ev' = RunEvent(len, 0)
    /\ pc' = [pc EXCEPT ![p] = "auxwait"]
    /\ UNCHANGED <<active, rawlog, locals, rec>>
    /\ UNCHANGED <<cleared, extra>>

\* memex forget: clearMemory (deleteProject) and rm -r .memex/sessions
Forget(p) ==
    /\ p = "aux" /\ pc[p] = "idle"
    /\ mem.exists
    /\ mem' = [exists |-> FALSE]
    /\ sess' = [s \in Sessions |->
                  IF sess[s].st = "none" THEN sess[s] ELSE [st |-> "deleted", summary |-> ""]]
    /\ rawlog' = [s \in Sessions |-> [exists |-> FALSE, len |-> 0]]
    /\ ev' = NoEvent
    /\ UNCHANGED <<pending, active, pc, locals, inflight, rec>>
    /\ UNCHANGED <<cleared, extra>>

\* ---- specification -----------------------------------------------------

Next ==
    \/ \E p \in Procs : StartBegin(p)
    \/ \E p \in Procs : ResumeBegin(p)
    \/ \E p \in Procs : StartupCheck(p)
    \/ \E p \in Procs : CreateSession(p)
    \/ \E p \in Procs : Launch(p)
    \/ \E p \in Procs : LaunchFails(p)
    \/ \E p \in Procs : Capture(p)
    \/ \E p \in Procs : Signal(p)
    \/ \E p \in Procs : ChildExit(p)
    \/ \E p \in Procs : WrapRejects(p)
    \/ \E p \in Procs : TornMarkerWrite(p)
    \/ \E p \in Procs : Kill(p)
    \/ ChatSettles
    \/ \E p \in Procs : Snapshot(p)
    \/ \E p \in Procs : Compress(p)
    \/ \E p \in Procs : HookPostPending(p)
    \/ \E p \in Procs : HookPostActive(p)
    \/ \E p \in Procs : HookPostLatest(p)
    \/ \E p \in Procs : Forget(p)

Spec == Init /\ [][Next]_vars

\* kill-then-restart runs: one terminal, the session commands only, a
\* summarizer that always answers well; the process may be killed anywhere
NextRestart ==
    \/ \E p \in Procs : StartBegin(p)
    \/ \E p \in Procs : ResumeBegin(p)
    \/ \E p \in Procs : StartupCheck(p)
    \/ \E p \in Procs : CreateSession(p)
    \/ \E p \in Procs : Launch(p)
    \/ \E p \in Procs : Capture(p)
    \/ \E p \in Procs : Signal(p)
    \/ \E p \in Procs : ChildExit(p)
    \/ \E p \in Procs : Kill(p)
    \/ ChatAnswers

SpecRestart == Init /\ [][NextRestart]_vars

\* runs with a summarizer that may fail: the session commands, and the manual
\* `memex compress` from another terminal; nobody is killed
NextRetry ==
    \/ \E p \in Procs : StartBegin(p)
    \/ \E p \in Procs : ResumeBegin(p)
    \/ \E p \in Procs : StartupCheck(p)
    \/ \E p \in Procs : CreateSession(p)
    \/ \E p \in Procs : Launch(p)
    \/ \E p \in Procs : Capture(p)
    \/ \E p \in Procs : ChildExit(p)
    \/ \E p \in Procs : Compress(p)
    \/ ChatAnswers
    \/ ChatFails

SpecRetry == Init /\ [][NextRetry]_vars

\* ---- <memex:skip> redaction, the transcript tail, the stored turns ------

\* longest transcript, in pieces
MaxSegs == 4

\* safeTranscript.slice(-12000)
TailChars == 12000

\* const MAX_TURNS = 30
MAX_TURNS == 30

\* a transcript is a sequence of pieces: the opening and the closing tag in
\* lower and in upper case, a run of ordinary characters, a line break, and a
\* long run of ordinary characters
SegKinds == {"open", "OPEN", "close", "CLOSE", "text", "nl", "big"}

\* characters of a piece: "<memex:skip>", "</memex:skip>",
\* "[content excluded by <memex:skip>]", a run, "\n", a long run
Chars(kind) ==
    CASE kind \in {"open", "OPEN"}   -> 12
      [] kind \in {"close", "CLOSE"} -> 13
      [] kind = "placeholder"        -> 34
      [] kind = "text"               -> MinTranscript
      [] kind = "big"                -> TailChars - 20
      [] OTHER                       -> 1

\* `at` is the place of the piece in the transcript it comes from
Seg(kind, i) == [kind |-> kind, n |-> Chars(kind), at |-> i]

Placeholder == [kind |-> "placeholder", n |-> Chars("placeholder"), at |-> 0]

\* the transcript made of the pieces f names
Pieces(f, n) == [i \in 1..n |-> Seg(f[i], i)]

\* parseScriptLog ends with trim(): no line break at either end
Trimmed(t) == t # <<>> => (t[1].kind # "nl" /\ t[Len(t)].kind # "nl")

\* /<memex:skip>/i
IsOpen(g) == g.kind \in {"open", "OPEN"}

\* /<\/memex:skip>/i
IsClose(g) == g.kind \in {"close", "CLOSE"}

Min(S) == CHOOSE x \in S : \A y \in S : x <= y

\* transcript.replace(/<memex:skip>[\s\S]*?<\/memex:skip>/gi, placeholder):
\* leftmost opening tag, shortest match, the scan goes on after the match
RECURSIVE applySkipFilter(_)
applySkipFilter(t) ==
    IF t = <<>> THEN <<>>
    ELSE LET closes == {k \in 2..Len(t) : IsClose(t[k])}
         IN  IF IsOpen(t[1]) /\ closes # {}
             THEN <<Placeholder>> \o applySkipFilter(SubSeq(t, Min(closes) + 1, Len(t)))
             ELSE <<t[1]>> \o applySkipFilter(Tail(t))

RECURSIVE TextChars(_)
TextChars(t) == IF t = <<>> THEN 0 ELSE t[1].n + TextChars(Tail(t))

\* String.prototype.slice(-n); a piece that is cut is ordinary characters
RECURSIVE SliceTail(_, _)
SliceTail(t, n) ==
    IF TextChars(t) <= n THEN t
    ELSE LET rest == TextChars(Tail(t))
         IN  IF rest >= n THEN SliceTail(Tail(t), n)
             ELSE <<[kind |-> "text", n |-> n - rest, at |-> t[1].at]>> \o Tail(t)

\* variant: the tail is cut first, then redacted
TranscriptSentTailFirst(t) == applySkipFilter(SliceTail(t, TailChars))

\* ${safeTranscript.slice(-12000)} with safeTranscript = applySkipFilter(transcript)
TranscriptSent(t) == SliceTail(applySkipFilter(t), TailChars)

\* variant: nothing is cut
SliceLastAll(q, n) == q

\* Array.prototype.slice(-n)
SliceLast(q, n) == IF Len(q) <= n THEN q ELSE SubSeq(q, Len(q) - n + 1, Len(q))

NotLineBreak(g) == g.kind # "nl"

\* the close handler feeds every non-blank line of the transcript to the
\* logger as agent output; getConversationTurns merges them into one turn
getConversationTurns(t) ==
    IF SelectSeq(t, NotLineBreak) = <<>> THEN <<>>
    ELSE <<[role |-> "assistant", content |-> SelectSeq(t, NotLineBreak)]>>

\* the wrapped child has exited with some transcript
InitSkip ==
    /\ SessionInit
    /\ MemIdle
    /\ ProcIdle /\ LateIdle
    /\ \E n \in 0..MaxSegs : \E f \in [1..n -> SegKinds] :
         /\ transcript = Pieces(f, n)
         /\ Trimmed(Pieces(f, n))
    /\ phase = "captured"
    /\ prompt = <<>>
    /\ stored = NothingStored

\* runCompression: the transcript is too short, the session is finalized
\* without summary and without turns
SkipTooShort ==
    /\ phase = "captured"
    /\ TooShort(TextChars(transcript))
    /\ phase' = "short"
    /\ UNCHANGED <<transcript, prompt, stored>>
    /\ UNCHANGED <<sessionVars, failed, lateVars, memVars, procVars>>

\* runCompression -> compressSession up to `await chat(...)`
CompressSessionSends ==
    /\ phase = "captured"
    /\ ~TooShort(TextChars(transcript))
    /\ prompt' = TranscriptSent(transcript)
    /\ phase' = "chat"
    /\ UNCHANGED <<transcript, stored>>
    /\ UNCHANGED <<sessionVars, failed, lateVars, memVars, procVars>>

\* the pieces of the transcript a text shows
Shown(t) == {t[i].at : i \in 1..Len(t)} \ {0}

\* chat() answers with a memory that repeats nothing or all of what it was
\* shown; runCompression saves it with the last MAX_TURNS turns of the logger
\* and finalizeSession stores those turns with the session
SummarizerReplies ==
    /\ phase = "chat"
    /\ \E fields \in {{}, Shown(prompt)} :
         stored' = [fields |-> fields,
                    turns  |-> SliceLast(getConversationTurns(transcript), MAX_TURNS)]
    /\ phase' = "saved"
    /\ UNCHANGED <<transcript, prompt>>
    /\ UNCHANGED <<sessionVars, failed, lateVars, memVars, procVars>>

NextSkip ==
    \/ SkipTooShort
    \/ CompressSessionSends
    \/ SummarizerReplies

SpecSkip == InitSkip /\ [][NextSkip]_vars

\* ---- the database: project row, session rows, conversation turns --------

\* const MAX_FOCUS_HISTORY = 10
MAX_FOCUS_HISTORY == 10

\* listSessions(db, projectPath, 5) in getProject
RecentLimit == 5

Range(q) == {q[i] : i \in 1..Len(q)}

\* initMemory: every field empty (focus 0 is the empty string)
BlankMemory ==
    [focus |-> 0, history |-> <<>>, recentSessions |-> <<>>, lastConversation |-> <<>>]

\* SELECT * FROM sessions ORDER BY started_at DESC LIMIT n, as ids; rows are
\* inserted in the order of their started_at, so that order is the id order
listSessions(d, n) ==
    LET k == Len(d.rows)
    IN  [i \in 1..Min({k, n}) |-> k + 1 - i]

\* a turn is its timestamp
RECURSIVE InsertTs(_, _)
InsertTs(x, q) ==
    IF q = <<>> THEN <<x>>
    ELSE IF x < q[1] THEN <<x>> \o q
    ELSE <<q[1]>> \o InsertTs(x, Tail(q))

RECURSIVE InsertionSort(_)
InsertionSort(q) ==
    IF q = <<>> THEN <<>> ELSE InsertTs(q[Len(q)], InsertionSort(SubSeq(q, 1, Len(q) - 1)))

\* ORDER BY ts ASC: rows already in order come back as they are
OrderByTs(q) ==
    IF \A i \in 1..(Len(q) - 1) : q[i] <= q[i + 1] THEN q ELSE InsertionSort(q)

\* SELECT role, content, ts FROM conversation_turns WHERE session_id = ? ORDER BY ts ASC
getTurns(d, id) == OrderByTs(d.rows[id].turns)

\* the ProjectMemory built from the project row and the sessions table
getProject(d) ==
    [focus   |-> d.focus,
     history |-> d.history,
     recentSessions |->
         [i \in 1..Len(listSessions(d, RecentLimit)) |->
             LET id == listSessions(d, RecentLimit)[i]
             IN  [sid |-> id, summary |-> d.rows[id].summary]],
     lastConversation |->
         IF d.rows = <<>> THEN <<>> ELSE getTurns(d, listSessions(d, 1)[1])]

\* INSERT INTO project ... ON CONFLICT(path) DO UPDATE: the columns of the
\* project row; recentSessions is no column, last_conversation is never read
upsertProject(d, m) ==
    [d EXCEPT !.exists = TRUE, !.focus = m.focus, !.history = m.history]

\* loadMemory(projectPath) ?? initMemory(projectPath): the memory ...
Existing(d) == IF d.exists THEN getProject(d) ELSE BlankMemory

\* ... and the database it leaves
Ensured(d) == IF d.exists THEN d ELSE upsertProject(d, BlankMemory)

\* variant: without `if (prev === topic) return memory`
setFocusAlwaysSaves(d, topic) ==
    LET memory == Existing(d)
        prev   == memory.focus
    IN  upsertProject(Ensured(d),
          [memory EXCEPT
             !.history = IF prev # 0 /\ prev \notin Range(memory.history)
                         THEN SliceLast(Append(memory.history, prev), MAX_FOCUS_HISTORY)
                         ELSE memory.history,
             !.focus = topic])

\* setFocus(projectPath, topic)
setFocus(d, topic) ==
    LET memory == Existing(d)
        prev   == memory.focus
    IN  IF prev = topic THEN Ensured(d)
        ELSE upsertProject(Ensured(d),
               [memory EXCEPT
                  !.history = IF prev # 0 /\ prev \notin Range(memory.history)
                              THEN SliceLast(Append(memory.history, prev), MAX_FOCUS_HISTORY)
                              ELSE memory.history,
                  !.focus = topic])

\* the repair without its test that the focus changed
RepairedHistoryUnchangedFocus(existing, reply) ==
    IF reply.histKind \in {"missing", "notArray", "empty"}
    THEN LET prev == existing.focus
         IN  IF prev # 0 /\ prev \notin Range(existing.history)
             THEN SliceLast(Append(existing.history, prev), MAX_FOCUS_HISTORY)
             ELSE existing.history
    ELSE reply.history

\* compressSession, the reply parsed: "Ensure focusHistory is never lost if
\* the AI omits it"
RepairedHistory(existing, reply) ==
    IF reply.histKind \in {"missing", "notArray", "empty"}
    THEN LET prev == existing.focus
             next == reply.focus
         IN  IF prev # 0 /\ prev # next /\ prev \notin Range(existing.history)
             THEN SliceLast(Append(existing.history, prev), MAX_FOCUS_HISTORY)
             ELSE existing.history
    ELSE reply.history

\* ---- focus changes and compressions (SpecFocus) --------------------------

\* topics are numbered; the largest number in use
MaxTopics == 12

TopicsUsed(d) == Max({0, d.focus} \cup Range(d.history))

\* the focus a command or a reply names: none, the first topic, the current
\* one, or one never used before
FocusInputs(d) ==
    {0, 1, d.focus} \cup (IF TopicsUsed(d) < MaxTopics THEN {TopicsUsed(d) + 1} ELSE {})

\* a focusHistory the summarizer makes up: one entry more than it was told to keep
LongHistory == [i \in 1..(MAX_FOCUS_HISTORY + 1) |-> i]

\* what a parsed reply says about focus: currentFocus, and focusHistory
\* missing, not an array, empty, or given
Replies(d) ==
    {[focus |-> f, histKind |-> k, history |-> IF k = "given" THEN LongHistory ELSE <<>>] :
        f \in FocusInputs(d), k \in {"missing", "notArray", "empty", "given"}}

InitFocus == SessionInit /\ SkipIdle /\ MemIdle /\ ProcIdle /\ LateIdle

\* `memex resume --focus <topic>`, `memex focus <topic>`, `memex focus --clear`
FocusCommand ==
    /\ \E topic \in FocusInputs(db) :
         /\ topic = 0 => db.exists
         /\ db' = setFocus(db, topic)
         /\ outcome' = [NoOutcome EXCEPT
                          !.kind = "setFocus", !.next = topic,
                          !.reason = IF Existing(db).focus = topic
                                     THEN "same" ELSE "changed"]
    /\ UNCHANGED <<cur, pendSid>>
    /\ UNCHANGED <<sessionVars, failed, lateVars, skipVars, procVars>>

\* compressSession (final or partial) with a reply that parses: saveMemory(updated)
CompressionSucceeds ==
    /\ \E reply \in Replies(db) :
         /\ db' = upsertProject(Ensured(db),
                    [Existing(db) EXCEPT !.focus = reply.focus,
                                         !.history = RepairedHistory(Existing(db), reply)])
         /\ outcome' = [NoOutcome EXCEPT !.kind = "compressed", !.next = reply.focus,
                                         !.omitted = (reply.histKind # "given")]
    /\ UNCHANGED <<cur, pendSid>>
    /\ UNCHANGED <<sessionVars, failed, lateVars, skipVars, procVars>>

NextFocus ==
    \/ FocusCommand
    \/ CompressionSucceeds

SpecFocus == InitFocus /\ [][NextFocus]_vars

\* ---- sessions, their turns, failed compressions (SpecSessions) ----------

\* sessions started by `memex start` / `memex resume`
MaxRows == 1

\* recentSessions entries of a memory.json of an earlier version
MaxLegacy == 2

\* turns the logger holds when the child exits
TurnCounts == {0, 1, MAX_TURNS + 1}

Turns(n) == [i \in 1..n |-> i]

\* a row of the sessions table with its conversation_turns; `via`,
\* `captured` and `endings` are history: the path that finalized it, the
\* turns its logger held, how often ended_at was written
NewRow == [ended |-> FALSE, summary |-> "", via |-> "none", turns |-> <<>>,
           captured |-> <<>>, endings |-> 0]

\* createSession: INSERT OR IGNORE INTO project, INSERT INTO sessions
createSession(d) == [d EXCEPT !.exists = TRUE, !.rows = Append(@, NewRow)]

\* finalizeSession(db, sessionId, summary, logFile, turns); no row when
\* sessionId is undefined
finalizeWithTurns(d, id, summary, turns) ==
    IF id \in 1..Len(d.rows)
    THEN [d EXCEPT !.rows[id].ended = TRUE,
                   !.rows[id].endings = @ + 1,
                   !.rows[id].summary = summary,
                   !.rows[id].turns = @ \o turns]
    ELSE d

\* { date, summary: "Session recorded but compression failed - <reason>", logFile }
FailureEntry(id) == [sid |-> id, summary |-> "failed"]

ChatOutcomes == {"ok", "empty", "garbage", "throw"}

\* the session whose transcript is compressed: the one named, or for
\* `memex compress` without a session the newest raw log, the latest one's
TranscriptOf(d, id) == IF id = 0 THEN Len(d.rows) ELSE id

\* the reply of a summarizer that answers the same transcript the same way:
\* currentFocus is what the session worked on (topic t for session t), and
\* focusHistory is left out
ReplyTo(t) == [focus |-> t, histKind |-> "missing", history |-> <<>>]

\* `updated`: the parsed reply, focusHistory repaired
Updated(d, id) ==
    [Existing(d) EXCEPT !.focus = ReplyTo(TranscriptOf(d, id)).focus,
                        !.history = RepairedHistory(Existing(d), ReplyTo(TranscriptOf(d, id)))]

\* compressSession(transcript, projectPath, logFile): the reply parses and
\* is saved; or it is empty or no JSON, and the failure entry is pushed on
\* existing.recentSessions before saveMemory(existing); or chat threw
compressSession(d, id, out) ==
    IF out = "throw" THEN Ensured(d)
    ELSE upsertProject(Ensured(d),
           IF out \in {"empty", "garbage"}
           THEN [Existing(d) EXCEPT
                   !.recentSessions = SliceLast(Append(@, FailureEntry(id)), RecentLimit)]
           ELSE Updated(d, id))

\* runCompression with a transcript long enough: on success lastConversation
\* is set to the last MAX_TURNS turns, saved, and the session finalized with them
CompressAndFinalize(d, id, turns, out) ==
    IF out = "ok"
    THEN finalizeWithTurns(
           upsertProject(compressSession(d, id, out),
                         [Updated(d, id) EXCEPT !.lastConversation = SliceLast(turns, MAX_TURNS)]),
           id, "ai", SliceLast(turns, MAX_TURNS))
    ELSE compressSession(d, id, out)

\* what compressSession did about a failure, and the reason it threw with
Outcome(out, id) ==
    [NoOutcome EXCEPT !.kind = out, !.sid = id,
                      !.pushed = (out \in {"empty", "garbage"}),
                      !.reason = IF out = "ok" THEN "none" ELSE out]

SetVia(d, id, out, via) ==
    IF out = "ok" /\ id \in 1..Len(d.rows) THEN [d EXCEPT !.rows[id].via = via] ELSE d

InitSessions == SessionInit /\ SkipIdle /\ MemIdle /\ ProcIdle /\ LateIdle

\* loadMemory finds a memory.json of an earlier version and no project row:
\* migrateFromJson seeds a session row per recentSessions entry and the
\* lastConversation into the last one
MigrateLegacy ==
    /\ ~db.exists /\ db.rows = <<>> /\ cur = 0
    /\ \E k \in 1..MaxLegacy, l \in {0, MAX_TURNS} :
         db' = [db EXCEPT
                  !.exists = TRUE,
                  !.rows = [i \in 1..k |->
                              [ended |-> TRUE, summary |-> "legacy", via |-> "migrated",
                               turns |-> IF i = k THEN Turns(l) ELSE <<>>,
                               captured |-> IF i = k THEN Turns(l) ELSE <<>>,
                               endings |-> 1]]]
    /\ outcome' = [NoOutcome EXCEPT !.kind = "migrated"]
    /\ UNCHANGED <<cur, pendSid>>
    /\ UNCHANGED <<sessionVars, failed, lateVars, skipVars, procVars>>

\* start / resume, the startup check done: createSession
CreateRow ==
    /\ cur = 0 /\ pendSid = 0
    /\ Cardinality({i \in 1..Len(db.rows) : db.rows[i].via # "migrated"}) < MaxRows
    /\ db' = createSession(db)
    /\ cur' = Len(db.rows) + 1
    /\ outcome' = [NoOutcome EXCEPT !.kind = "created", !.sid = Len(db.rows) + 1]
    /\ UNCHANGED pendSid
    /\ UNCHANGED <<sessionVars, failed, lateVars, skipVars, procVars>>

\* the child exits holding n turns; the marker is written, runCompression
\* runs with the logger's turns and leaves the marker when it fails, or
\* when the process is killed between finalizeSession and
\* clearPendingCompression
SessionEnds ==
    /\ cur # 0
    /\ \E n \in TurnCounts, short \in BOOLEAN, out \in ChatOutcomes, killed \in BOOLEAN :
         LET held == [db EXCEPT !.rows[cur].captured = Turns(n)]
         IN  IF short
             THEN /\ db' = [finalizeWithTurns(held, cur, "tooShort", <<>>)
                              EXCEPT !.rows[cur].via = "end"]
                  /\ pendSid' = 0
                  /\ outcome' = [NoOutcome EXCEPT !.kind = "short", !.sid = cur]
             ELSE /\ db' = SetVia(CompressAndFinalize(held, cur, Turns(n), out), cur, out, "end")
                  /\ pendSid' = IF out = "ok" /\ ~killed THEN 0 ELSE cur
                  /\ outcome' = Outcome(out, cur)
    /\ cur' = 0
    /\ UNCHANGED <<sessionVars, failed, lateVars, skipVars, procVars>>

\* checkAndRunPendingCompression at the next startup: runCompression with no
\* turns, the marker cleared whatever the outcome
Recover ==
    /\ cur = 0 /\ pendSid # 0
    /\ \E out \in ChatOutcomes :
         /\ db' = SetVia(CompressAndFinalize(db, pendSid, <<>>, out), pendSid, out, "recovery")
         /\ outcome' = Outcome(out, pendSid)
    /\ pendSid' = 0
    /\ UNCHANGED cur
    /\ UNCHANGED <<sessionVars, failed, lateVars, skipVars, procVars>>

\* memex compress: runCompression with no turns for the latest session when
\* it is not finalized, for no session otherwise
ManualCompress ==
    /\ cur = 0 /\ db.rows # <<>>
    /\ \E out \in ChatOutcomes :
         LET latest == listSessions(db, 1)[1]
             id     == IF db.rows[latest].ended THEN 0 ELSE latest
         IN  /\ db' = SetVia(CompressAndFinalize(db, id, <<>>, out), id, out, "manual")
             /\ outcome' = Outcome(out, id)
             /\ pendSid' = IF out = "ok" THEN 0 ELSE pendSid
    /\ UNCHANGED cur
    /\ UNCHANGED <<sessionVars, failed, lateVars, skipVars, procVars>>

\* runSnapshotCompression with a finalizing runCompression in its place
runSnapshotCompressionFinalizing(d, id, out) == CompressAndFinalize(d, id, <<>>, out)

\* runSnapshotCompression, the transcript long enough: compressSnapshot is
\* compressSession with partial set, then saveMemory(updated); every error
\* is swallowed
runSnapshotCompression(d, id, out) ==
    IF out = "ok"
    THEN upsertProject(compressSession(d, id, out), Updated(d, id))
    ELSE compressSession(d, id, out)

\* the snapshot timer of a running session, or `memex snapshot` beside it
SnapshotRuns ==
    /\ cur # 0
    /\ \E short \in BOOLEAN, out \in ChatOutcomes :
         IF short
         THEN /\ db' = db
              /\ outcome' = [NoOutcome EXCEPT !.kind = "snapshot", !.sid = cur,
                                              !.reason = "short"]
         ELSE /\ db' = runSnapshotCompression(db, cur, out)
              /\ outcome' = [Outcome(out, cur) EXCEPT !.kind = "snapshot"]
    /\ UNCHANGED <<cur, pendSid>>
    /\ UNCHANGED <<sessionVars, failed, lateVars, skipVars, procVars>>

\* `memex hook:post` run by the agent's stop hook while the session's
\* active marker exists: compressSession, then finalizeSession without turns
\* and clearActiveSession; the marker stays when the compression fails
HookPost ==
    /\ cur # 0 /\ ~db.rows[cur].ended
    /\ \E short \in BOOLEAN, out \in ChatOutcomes :
         IF short
         THEN /\ db' = db
              /\ outcome' = [NoOutcome EXCEPT !.kind = "hook", !.sid = cur,
                                              !.reason = "short"]
         ELSE /\ db' = IF out = "ok"
                       THEN SetVia(finalizeWithTurns(compressSession(db, cur, out),
                                                     cur, "ai", <<>>),
                                   cur, out, "hook")
                       ELSE compressSession(db, cur, out)
              /\ outcome' = [Outcome(out, cur) EXCEPT !.kind = "hook"]
    /\ UNCHANGED <<cur, pendSid>>
    /\ UNCHANGED <<sessionVars, failed, lateVars, skipVars, procVars>>

NextSessions ==
    \/ MigrateLegacy
    \/ CreateRow
    \/ SessionEnds
    \/ Recover
    \/ ManualCompress
    \/ SnapshotRuns
    \/ HookPost

SpecSessions == InitSessions /\ [][NextSessions]_vars

\* ---- wrapProcess: strategies, signals, the child's environment (SpecSupervisor)

\* termination signals delivered to the supervisor in one run
MaxSignals == 2

Signals == {"SIGHUP", "SIGINT", "SIGTERM"}

\* const MEMEX_ONLY_KEYS
MEMEX_ONLY_KEYS ==
    {"ANTHROPIC_API_KEY", "OPENAI_API_KEY", "LITELLM_API_KEY", "LITELLM_BASE_URL",
     "LITELLM_MODEL", "LITELLM_TEAM_ID", "ANTHROPIC_MODEL", "OPENAI_MODEL",
     "AI_PROVIDER"}

\* variable names an environment or a shell profile sets: none of the keys,
\* one of them, all of them
EnvInputs ==
    {{"PATH"}, {"PATH"} \cup MEMEX_ONLY_KEYS} \cup {{"PATH", k} : k \in MEMEX_ONLY_KEYS}

\* sanitizeEnv that filters nothing
sanitizeEnvKeepsAll(env) == env

\* sanitizeEnv(process.env)
sanitizeEnv(env) == env \ MEMEX_ONLY_KEYS

\* MEMEX_ONLY_KEYS.flatMap((k) => ["-u", k])
envUnsetArgs == MEMEX_ONLY_KEYS

\* what the agent sees under `script -q <log> env -u K ... <command>`: the
\* spawn environment, what the shell profile exports when script re-sources
\* it, less what env unsets at exec time
ScriptAgentEnv(env, profile, unset) == (sanitizeEnv(env) \cup profile) \ unset

\* the errors of part_004: the one of wrapProcess and the one of
\* wrapWithSpawn name the resolved path and a `which` command
NotExecutable == [kind |-> "notExecutable", path |-> TRUE, remedy |-> TRUE]

ScriptError == [kind |-> "script", path |-> FALSE, remedy |-> FALSE]

SpawnError == [kind |-> "spawn", path |-> TRUE, remedy |-> TRUE]

\* variant: the handlers stay registered
removeListenersSkipped(u) == u

\* process.removeListener for SIGHUP, SIGTERM and SIGINT
removeListeners(u) == [u EXCEPT !.listeners = @ \ Signals]

\* wrapWithScript up to the handlers it registers
wrapWithScript(u) ==
    [u EXCEPT !.pc = "script", !.child = "starting", !.listeners = Signals,
              !.finishing = FALSE, !.abruptShutdown = FALSE,
              !.spawned = Append(@, "script"), !.unset = envUnsetArgs]

\* wrapWithSpawn up to the handlers it registers; handlers an earlier
\* strategy left registered stay registered beside its own
wrapWithSpawn(u) ==
    [u EXCEPT !.pc = "spawn", !.child = "starting", !.listeners = Signals,
              !.leftover = u.listeners,
              !.finishing = FALSE, !.abruptShutdown = FALSE,
              !.spawned = Append(@, "spawn"), !.unset = {}]

\* wrapProcess letting the error of the recorder strategy through
wrapProcessRethrows(u) == [u EXCEPT !.pc = "rejected", !.error = ScriptError]

\* the catch of wrapProcess: console.error, then wrapWithSpawn
wrapProcessCatch(u) == wrapWithSpawn([u EXCEPT !.logged = TRUE])

\* a handler that ends the process as the default disposition does
gracefulShutdownExits(u) == [u EXCEPT !.pc = "dead"]

\* gracefulShutdown of wrapWithScript / wrapWithSpawn
gracefulShutdown(u) ==
    IF u.finishing THEN u
    ELSE removeListeners([u EXCEPT !.finishing = TRUE, !.abruptShutdown = TRUE,
                                   !.kills = @ + 1, !.child = "terminating"])

InitSupervisor == SessionInit /\ SkipIdle /\ MemIdle /\ ProcIdle /\ LateIdle

\* wrapProcess(logger, options): fs.accessSync(resolvedCommand, X_OK), then
\* the recorder strategy
WrapProcessCalled ==
    /\ sup.pc = "idle"
    /\ \E executable \in BOOLEAN, env \in EnvInputs, profile \in EnvInputs :
         LET u == [sup EXCEPT !.env = env, !.profile = profile,
                              !.exec = IF executable THEN "yes" ELSE "no"]
         IN  sup' = IF executable
                    THEN wrapWithScript(u)
                    ELSE [u EXCEPT !.pc = "rejected", !.error = NotExecutable]
    /\ UNCHANGED ctx
    /\ UNCHANGED <<sessionVars, failed, lateVars, skipVars, memVars>>

\* the child process is running the command
ChildStarts ==
    /\ sup.child = "starting"
    /\ sup' = [sup EXCEPT
                 !.child = "running",
                 !.agentEnv = IF sup.pc = "script"
                              THEN ScriptAgentEnv(sup.env, sup.profile, sup.unset)
                              ELSE sanitizeEnv(sup.env)]
    /\ UNCHANGED ctx
    /\ UNCHANGED <<sessionVars, failed, lateVars, skipVars, memVars>>

\* the 'error' event of a child that could not be spawned: the handlers are
\* removed and the promise rejects; wrapProcess catches the rejection of the
\* recorder strategy, the one of the fallback reaches the caller
SpawnFails ==
    /\ sup.child = "starting"
    /\ sup' = IF sup.pc = "script"
              THEN wrapProcessCatch(removeListeners([sup EXCEPT !.scriptFailed = TRUE]))
              ELSE removeListeners([sup EXCEPT !.pc = "rejected", !.child = "failed",
                                               !.error = SpawnError])
    /\ UNCHANGED ctx
    /\ UNCHANGED <<sessionVars, failed, lateVars, skipVars, memVars>>

\* SIGHUP, SIGINT or SIGTERM reaches the supervisor while the child runs or
\* before the hand-off is done: the handler runs when it is registered for
\* that signal; with no listener left Node restores the default disposition
\* and the process ends
SignalDelivered(sig) ==
    /\ \/ sup.pc \in {"script", "spawn"} /\ sup.child \in {"running", "terminating"}
       \/ sup.pc = "resolved"
    /\ sup.sigs < MaxSignals
    /\ sup' = [(IF sig \in sup.listeners
                THEN gracefulShutdown(sup)
                ELSE [sup EXCEPT !.pc = "dead"])
               EXCEPT !.sigs = @ + 1]
    /\ UNCHANGED ctx
    /\ UNCHANGED <<sessionVars, failed, lateVars, skipVars, memVars>>

\* the 'close' event: the handlers are removed and the promise resolves
\* with abrupt: abruptShutdown
ChildCloses ==
    /\ sup.pc \in {"script", "spawn"} /\ sup.child \in {"running", "terminating"}
    /\ sup' = removeListeners([sup EXCEPT
                 !.pc = "resolved", !.child = "closed",
                 !.result = IF sup.abruptShutdown THEN "abrupt" ELSE "clean"])
    /\ UNCHANGED ctx
    /\ UNCHANGED <<sessionVars, failed, lateVars, skipVars, memVars>>

\* start / resume after wrapProcess resolved: writePendingCompression
MarkerWritten ==
    /\ sup.pc = "resolved" /\ sup.handoff = "none"
    /\ sup' = [sup EXCEPT !.handoff = "marker"]
    /\ UNCHANGED ctx
    /\ UNCHANGED <<sessionVars, failed, lateVars, skipVars, memVars>>

\* ... then runCompression
CompressionRuns ==
    /\ sup.pc = "resolved" /\ sup.handoff = "marker"
    /\ sup' = [sup EXCEPT !.handoff = "compress"]
    /\ UNCHANGED ctx
    /\ UNCHANGED <<sessionVars, failed, lateVars, skipVars, memVars>>

NextSupervisor ==
    \/ WrapProcessCalled
    \/ ChildStarts
    \/ SpawnFails
    \/ \E sig \in Signals : SignalDelivered(sig)
    \/ ChildCloses
    \/ MarkerWritten
    \/ CompressionRuns

SpecSupervisor == InitSupervisor /\ [][NextSupervisor]_vars

\* ---- buildContext: tiers, budget, focus (SpecContext) -------------------

\* entries of one list of the memory
MaxItems == 4

\* "\n\n> [Memex: context truncated to fit token budget]".length
NoticeChars == 50

\* tier === 2 ? tasks.slice(0, 3) : tasks
TopItems == 3

\* words a text or a focus string is made of, and their lengths
Stems == {"go", "api", "auth"}

WordLen(stem) == CASE stem = "go" -> 2 [] stem = "api" -> 3 [] OTHER -> 4

Word(stem, caps) == [stem |-> stem, caps |-> caps]

\* String.prototype.toLowerCase of a word and of a text
toLowerCase(w) == [w EXCEPT !.caps = FALSE]

LowerText(t) == [t EXCEPT !.words = {toLowerCase(w) : w \in @}]

\* String.prototype.includes
includes(t, kw) == kw \in t.words

\* scoreRelevance comparing without lower-casing the text
scoreRelevanceCaseSensitive(text, keywords) ==
    Cardinality({k \in 1..Len(keywords) : includes(text, keywords[k])})

\* scoreRelevance(text, keywords)
scoreRelevance(text, keywords) ==
    Cardinality({k \in 1..Len(keywords) : includes(LowerText(text), keywords[k])})

LongerThanTwo(w) == WordLen(w.stem) > 2

\* focusKeywords(focus): the focus is given as its whitespace-separated words
focusKeywords(focus) ==
    SelectSeq([i \in 1..Len(focus) |-> toLowerCase(focus[i])], LongerThanTwo)

\* Array.prototype.sort with (a, b) => score(b) - score(a): stable
RECURSIVE InsertByScore(_, _, _)
InsertByScore(x, q, keywords) ==
    IF q = <<>> THEN <<x>>
    ELSE IF scoreRelevance(x, keywords) > scoreRelevance(q[1], keywords)
         THEN <<x>> \o q
         ELSE <<q[1]>> \o InsertByScore(x, Tail(q), keywords)

RECURSIVE SortByScore(_, _)
SortByScore(items, keywords) ==
    IF items = <<>> THEN <<>>
    ELSE InsertByScore(items[Len(items)],
                       SortByScore(SubSeq(items, 1, Len(items) - 1), keywords),
                       keywords)

\* sortByRelevance, sortDecisionsByRelevance, sortFilesByRelevance; an item
\* carries the text that is scored
sortByRelevance(items, keywords) ==
    IF keywords = <<>> THEN items ELSE SortByScore(items, keywords)

\* tokensToChars(tokens)
tokensToChars(tokens) == tokens * 4

\* opts.tier ?? 3 (0 stands for an option left out)
TierOf(opts) == IF opts.tier = 0 THEN 3 ELSE opts.tier

\* const charLimit of buildContext
CharLimit(opts) ==
    IF opts.maxTokens # 0 THEN tokensToChars(opts.maxTokens)
    ELSE CASE TierOf(opts) = 1 -> 300
           [] TierOf(opts) = 2 -> 2000
           [] OTHER -> 35000

\* a line of the output: its length, the section it belongs to, and for an
\* item its index in the list of the memory
Line(n, sec, at) == [n |-> n, sec |-> sec, at |-> at]

\* text.length of lines joined with "\n"
RECURSIVE LineChars(_)
LineChars(q) == IF q = <<>> THEN 0 ELSE q[1].n + LineChars(Tail(q))

TextLen(q) == IF q = <<>> THEN 0 ELSE LineChars(q) + Len(q) - 1

\* items.slice(0, n)
SliceFirst(q, n) == SubSeq(q, 1, Min({Len(q), n}))

\* one pushed part: "\n<title>\n" and a "- ..." line per item
Section(sec, titleChars, items, extraChars) ==
    IF items = <<>> THEN <<>>
    ELSE <<Line(0, "blank", 0), Line(titleChars, "title", 0)>>
         \o [i \in 1..Len(items) |-> Line(items[i].n + extraChars, sec, items[i].at)]

\* "  ... and N more (use get_tasks() for full list)"
MoreLine(tier, items, chars) ==
    IF tier = 2 /\ Len(items) > TopItems THEN <<Line(chars, "more", 0)>> ELSE <<>>

\* parts.join("\n") of buildContext for a memory without description,
\* stack, focus and sessions
ContextText(memory, opts) ==
    LET tier      == TierOf(opts)
        keywords  == IF opts.focus # <<>> THEN focusKeywords(opts.focus) ELSE <<>>
        oneLiner  == <<Line(9 + memory.nameLen, "one", 0)>>
        tasks     == sortByRelevance(memory.pendingTasks, keywords)
        topTasks  == IF tier = 2 THEN SliceFirst(tasks, TopItems) ELSE tasks
        gotchas   == sortByRelevance(memory.gotchas, keywords)
        topGotchas == IF tier = 2 THEN SliceFirst(gotchas, TopItems) ELSE gotchas
        decisions == sortByRelevance(memory.keyDecisions, keywords)
        files     == sortByRelevance(memory.importantFiles, keywords)
        keyFacts  == Section("task", 14, topTasks, 2) \o MoreLine(tier, tasks, 46)
                     \o Section("gotcha", 8, topGotchas, 2) \o MoreLine(tier, gotchas, 48)
    IN  IF tier = 1 THEN oneLiner
        ELSE IF tier = 2 THEN oneLiner \o keyFacts
        ELSE oneLiner \o keyFacts \o Section("decision", 14, decisions, 2)
                      \o Section("file", 16, files, 2)

\* applyLimit(text, charLimit); the result is the whole lines kept, the
\* characters kept of the line after them, its length, and the notice
applyLimit(text, charLimit) ==
    IF TextLen(text) <= charLimit
    THEN [lines |-> text, partial |-> 0, len |-> TextLen(text), notice |-> FALSE]
    ELSE LET NewlineAt(i) == TextLen(SubSeq(text, 1, i))
             inCut == {i \in 1..(Len(text) - 1) : NewlineAt(i) < charLimit}
             lastNewline == IF inCut = {} THEN -1 ELSE NewlineAt(Max(inCut))
             whole == IF inCut = {} THEN 0 ELSE Max(inCut)
         IN  IF 10 * lastNewline > 8 * charLimit
             THEN [lines |-> SubSeq(text, 1, whole), partial |-> 0,
                   len |-> lastNewline + NoticeChars, notice |-> TRUE]
             ELSE [lines |-> SubSeq(text, 1, whole),
                   partial |-> charLimit - (lastNewline + 1),
                   len |-> charLimit + NoticeChars, notice |-> TRUE]

\* buildContext(memory, opts)
buildContext(memory, opts) == applyLimit(ContextText(memory, opts), CharLimit(opts))

\* the texts an item can be: no focus word in it, one in capitals, two
ItemKinds ==
    {[words |-> {}, n |-> 10],
     [words |-> {Word("api", TRUE)}, n |-> 30],
     [words |-> {Word("api", FALSE), Word("auth", FALSE)}, n |-> 90]}

\* the list whose i-th entry has the text q[i]
Entries(q) == [i \in 1..Len(q) |-> [at |-> i, words |-> q[i].words, n |-> q[i].n]]

Reversed(q) == [i \in 1..Len(q) |-> q[Len(q) + 1 - i]]

\* focus strings: none, and words in either case, short and long
FocusStrings ==
    {<<>>, <<Word("api", FALSE)>>, <<Word("api", TRUE)>>, <<Word("go", FALSE)>>,
     <<Word("auth", TRUE), Word("api", FALSE)>>, <<Word("go", FALSE), Word("auth", FALSE)>>}

InitContext ==
    /\ SessionInit /\ SkipIdle /\ MemIdle /\ LateIdle
    /\ sup = SupIdle
    /\ \E n \in 0..MaxItems : \E q \in [1..n -> ItemKinds] :
       \E nameLen \in {7, 400}, tier \in 0..3, maxTokens \in {0, 25},
          focus \in FocusStrings :
         ctx = [CtxIdle EXCEPT
                  !.memory = [nameLen |-> nameLen,
                              pendingTasks |-> Entries(q),
                              gotchas |-> Entries(Reversed(q)),
                              keyDecisions |-> Entries(q),
                              importantFiles |-> Entries(Reversed(q))],
                  !.opts = [tier |-> tier, maxTokens |-> maxTokens, focus |-> focus]]

\* buildContext is called with the memory and the options
BuildContextCalled ==
    /\ ~ctx.called
    /\ ctx' = [ctx EXCEPT !.called = TRUE,
                          !.out = buildContext(ctx.memory, ctx.opts)]
    /\ UNCHANGED sup
    /\ UNCHANGED <<sessionVars, failed, lateVars, skipVars, memVars>>

NextContext == BuildContextCalled

SpecContext == InitContext /\ [][NextContext]_vars

\* ---- properties --------------------------------------------------------

\* the session command of "cli" has finished its pending-compression check
\* and session s belongs to an earlier command
LaterChecked(s) ==
    \/ /\ pc["cli"] = "create"
       /\ \A c \in inflight : ~(c.proc = "cli" /\ c.kind = "recovery")
    \/ /\ pc["cli"] \in {"launch", "running", "compress"}
       /\ sid > s

Finalized(s) == sess[s] = [st |-> "ended", summary |-> "ai"]

\* C1: a session that was interrupted after at least 50 characters reached
\* its raw log is finalized with a summarizer-written summary once the next
\* start / resume has run its pending-compression check (summarizer succeeding)
C1_InterruptedSessionFinalized ==
    \A s \in Sessions :
        (rawlog[s].exists /\ rawlog[s].len >= MinTranscript /\ LaterChecked(s))
            => Finalized(s)

C3_MarkerRemovedOnlyWhenFinalized ==
    [][(pending.kind = "marker" /\ MarkerLog(pending).exists /\ pending' # pending)
          => sess'[pending.sid].st = "ended"]_vars

\* C4: once `start` has created its session record, the recovery its startup
\* check began is no longer in flight, the marker is resolved, and a recovery
\* that succeeded or found the transcript too short has finalized the
\* interrupted session
C4_RecoveryBeforeSession ==
    (cmd = "start" /\ pc["cli"] \in {"launch", "running", "compress"})
        => /\ \A c \in inflight : ~(c.proc = "cli" /\ c.kind = "recovery")
           /\ rec.out # "inflight"
           /\ pc["cli"] \in {"launch", "running"} => pending.kind = "none"
           /\ rec.out \in {"ok", "short"} => sess[rec.sid].st \in {"ended", "deleted"}

C4_Witness ==
    /\ cmd = "start" /\ pc["cli"] = "running"
    /\ rec.out = "ok" /\ Finalized(rec.sid)

\* C5: when `resume` has loaded the memory and built its context block, no
\* marker with an existing raw log is still waiting to be recovered
C5_CheckBeforeContext ==
    ~(cmd = "resume" /\ pc["cli"] = "check"
        /\ pending.kind = "marker" /\ MarkerLog(pending).exists)

\* C6 as stated: never two compressSession invocations in flight at once
C6_NeverConcurrent == Cardinality(inflight) <= 1

\* C6 amended: within one start / resume invocation the startup recovery and
\* the session-end compression are never in flight together
C6_SequentialPerInvocation ==
    \A c1, c2 \in inflight :
        (c1.proc = c2.proc /\ {c1.kind, c2.kind} \subseteq {"recovery", "sessionEnd", "catch"})
            => c1 = c2

C6_Witness ==
    /\ rec.out \in {"ok", "failed"}
    /\ \E c \in inflight : c.proc = "cli" /\ c.kind = "sessionEnd"

\* C7: a run of checkAndRunPendingCompression that finds a marker which is
\* not valid JSON or whose raw log is missing removes the marker, prints no
\* notice, starts no summarizer call and leaves memory and sessions as they were
C7_StaleMarkerDiscarded ==
    [][(ev'.type \in CheckTypes
          /\ (pending.kind = "corrupt"
                \/ (pending.kind = "marker" /\ ~MarkerLog(pending).exists)))
          => /\ pending' = NoMarker
             /\ ~ev'.notice
             /\ inflight' = inflight
             /\ mem' = mem
             /\ sess' = sess]_vars

C7_Witness == ev.type = "stale" /\ ev.sid \in Sessions /\ pending = NoMarker

\* C8: a run of checkAndRunPendingCompression that finds no marker changes
\* nothing: no summarizer call, memory and sessions unchanged, no notice
C8_SecondRunNoOp ==
    [][(ev'.type \in CheckTypes /\ pending.kind = "none")
          => /\ ~ev'.notice
             /\ pending' = pending
             /\ inflight' = inflight
             /\ mem' = mem
             /\ sess' = sess]_vars

\* the run came after an earlier run had removed the marker
C8_Witness == ev.type = "nomarker" /\ cleared

\* the step in which the wrapProcess of "cli" resolved, threw, or the process
\* went down right after it
SupervisorExit ==
    \/ ev'.type \in {"threw", "crashed"}
    \/ /\ pc["cli"] = "running" /\ pc'["cli"] # "running"
       /\ ev'.type \in {"runshort", "runlong"}

C14_NoAutomaticRetry ==
    [][\A c \in inflight' \ inflight :
          c.src \in failed => c.kind = "manual"]_vars

\* the tags as the claims describe them: either case
SkipOpens(g) == g.kind \in {"open", "OPEN"}
SkipCloses(g) == g.kind \in {"close", "CLOSE"}

\* piece i of t lies in a closed skip span (tags included): an opening tag at
\* or before it with no closing tag in between, and a closing tag at or after it
InClosedSpan(t, i) ==
    \E j \in 1..i :
        /\ SkipOpens(t[j])
        /\ \A m \in (j + 1)..(i - 1) : ~SkipCloses(t[m])
        /\ \E k \in i..Len(t) : k > j /\ SkipCloses(t[k])

SuffixChars(t, i) == TextChars(SubSeq(t, i, Len(t)))

\* C12: the transcript text sent to the summarizer has at most 12000
\* characters, ends where the redacted transcript ends, shows no character
\* of a closed skip span (tags in either case, shortest match, line breaks
\* inside), and is the whole transcript when that is short and has no span
C12_RedactThenTail ==
    phase \in {"chat", "saved"} =>
        /\ TextChars(prompt) <= TailChars
        /\ \A i \in 1..Len(prompt) :
              prompt[i].at # 0 => ~InClosedSpan(transcript, prompt[i].at)
        /\ prompt # <<>>
        /\ prompt[Len(prompt)].at =
              IF InClosedSpan(transcript, Len(transcript)) THEN 0 ELSE Len(transcript)
        /\ ((\A i \in 1..Len(transcript) : ~InClosedSpan(transcript, i))
              /\ TextChars(transcript) <= TailChars) => prompt = transcript

\* a closed span lies across the place where the tail of the unredacted
\* transcript would begin, and its placeholder was sent
C12_Witness ==
    /\ phase = "chat"
    /\ \E j \in 1..Len(transcript), k \in 1..Len(transcript) :
         /\ j < k /\ SkipOpens(transcript[j]) /\ SkipCloses(transcript[k])
         /\ \A m \in (j + 1)..(k - 1) : ~SkipCloses(transcript[m])
         /\ InClosedSpan(transcript, j)
         /\ SuffixChars(transcript, k + 1) < TailChars
         /\ SuffixChars(transcript, j) > TailChars
    /\ \E i \in 1..Len(prompt) : prompt[i] = Placeholder

\* piece i of t is content of a closed skip span: strictly between the tags
SkippedContent(t, i) ==
    \E j \in 1..(i - 1) :
        /\ SkipOpens(t[j])
        /\ \A m \in (j + 1)..i : ~SkipCloses(t[m])
        /\ \E k \in (i + 1)..Len(t) : SkipCloses(t[k])

\* C11: once the session is compressed, neither the stored memory fields nor
\* the stored conversation turns hold content of a closed skip span
C11_SkippedNeverStored ==
    phase = "saved" =>
        /\ \A a \in stored.fields : ~SkippedContent(transcript, a)
        /\ \A n \in 1..Len(stored.turns) :
              \A a \in Shown(stored.turns[n].content) : ~SkippedContent(transcript, a)

NoDuplicates(q) == \A i, j \in 1..Len(q) : q[i] = q[j] => i = j

\* C16: the stored focusHistory has at most 10 entries, no value twice, and
\* never the value of the stored currentFocus
C16_FocusHistoryInvariant ==
    /\ Len(db.history) <= MAX_FOCUS_HISTORY
    /\ NoDuplicates(db.history)
    /\ db.focus # 0 => db.focus \notin Range(db.history)

\* C17: a parsed reply without focusHistory leaves, when the prior focus is
\* non-empty and differs from the reply's, the last 10 entries of the prior
\* history with the prior focus appended unless already present, and
\* otherwise exactly the prior history
C17_RepairOmittedHistory ==
    [][(outcome'.kind = "compressed" /\ outcome'.omitted)
          => db'.history =
               IF db.focus # 0 /\ db.focus # outcome'.next
               THEN SliceLast(IF db.focus \in Range(db.history)
                              THEN db.history ELSE Append(db.history, db.focus),
                              MAX_FOCUS_HISTORY)
               ELSE db.history]_vars

\* the entry loadMemory returns for a failed compression of session id
FailureLoaded(id) ==
    \E i \in 1..Len(getProject(db).recentSessions) :
        getProject(db).recentSessions[i] = FailureEntry(id)

\* C13: after a reply that is empty or not JSON to the compression of a
\* session, the failure entry was appended, loadMemory returns it, and the
\* reason was thrown to the caller
C13_ParseFailureRecorded ==
    (outcome.kind \in {"empty", "garbage"} /\ outcome.sid # 0) =>
        /\ outcome.pushed
        /\ outcome.reason = outcome.kind
        /\ FailureLoaded(outcome.sid)

\* C15: after chat threw in the compression of a session, the same failure
\* entry was appended and is returned by loadMemory, and the reason reached
\* the caller
C15_TransportFailureRecorded ==
    (outcome.kind = "throw" /\ outcome.sid # 0) =>
        /\ outcome.reason = "throw"
        /\ outcome.pushed
        /\ FailureLoaded(outcome.sid)

\* C18: the recentSessions loadMemory returns has at most 5 entries, ordered
\* from the oldest session to the newest
C18_RecentSessionsOldestFirst ==
    db.exists =>
        LET recent == getProject(db).recentSessions
        IN  /\ Len(recent) <= RecentLimit
            /\ \A i, j \in 1..Len(recent) : i < j => recent[i].sid < recent[j].sid

\* C19: the lastConversation loadMemory returns has at most 30 turns, in the
\* order of their timestamps
C19_LastConversationBounded ==
    db.exists =>
        LET last == getProject(db).lastConversation
        IN  /\ Len(last) <= MAX_TURNS
            /\ \A i, j \in 1..Len(last) : i < j => last[i] <= last[j]

\* the latest session held more than 30 turns and 30 of them are returned
C19_Witness ==
    /\ db.rows # <<>>
    /\ Len(db.rows[Len(db.rows)].captured) > MAX_TURNS
    /\ Len(getProject(db).lastConversation) = MAX_TURNS

\* C20: a session compressed successfully at its end or by the startup
\* recovery has the last 30 turns its logger held stored with its row, and
\* while it is the latest session they are the lastConversation
C20_TurnsPersisted ==
    \A id \in 1..Len(db.rows) :
        (db.rows[id].via \in {"end", "recovery"} /\ db.rows[id].summary = "ai")
            => /\ db.rows[id].turns = SliceLast(db.rows[id].captured, MAX_TURNS)
               /\ id = Len(db.rows)
                    => getProject(db).lastConversation = SliceLast(db.rows[id].captured, MAX_TURNS)

\* C21: a snapshot compression, whatever the summarizer did, leaves every
\* session row as it was (none ended, none given a summary) and the
\* recentSessions loadMemory returns unchanged
C21_SnapshotLeavesSessions ==
    [][outcome'.kind = "snapshot" =>
          /\ db'.rows = db.rows
          /\ getProject(db').recentSessions = getProject(db).recentSessions]_vars

\* a snapshot of a running session got a reply that is no JSON, and
\* compressSession pushed its failure entry before saving
C21_Witness ==
    /\ outcome.kind = "snapshot" /\ outcome.reason = "garbage" /\ outcome.pushed
    /\ cur # 0 /\ ~db.rows[cur].ended

\* C22: a compression that succeeds on the transcript of a session that
\* runCompression already compressed successfully (at the session's end, by
\* the recovery or by `memex compress`) leaves what loadMemory returns as it was: the
\* focus, the focusHistory, the number of recentSessions entries, and the
\* turns stored for that session
C22_CompressionIdempotent ==
    [][LET t == TranscriptOf(db, outcome'.sid)
       IN  (/\ outcome'.kind = "ok" /\ t \in 1..Len(db.rows)
            /\ db.rows[t].summary = "ai"
            /\ db.rows[t].via \in {"end", "recovery", "manual"})
               => /\ getProject(db').focus = getProject(db).focus
                  /\ getProject(db').history = getProject(db).history
                  /\ Len(getProject(db').recentSessions) = Len(getProject(db).recentSessions)
                  /\ getTurns(db', t) = getTurns(db, t)]_vars

\* a session that changed the focus and holds turns was compressed at its
\* end and once more by the recovery
C22_Witness ==
    /\ outcome.kind = "ok" /\ outcome.sid # 0
    /\ db.rows[outcome.sid].via = "recovery"
    /\ db.rows[outcome.sid].turns # <<>>
    /\ db.focus = outcome.sid /\ db.history # <<>>

\* C23: ended_at of a session row is written at most once
C23_EndedOnce ==
    \A id \in 1..Len(db.rows) : db.rows[id].endings <= 1

\* C24: while the child runs, the shutdown sequence runs once: the child is
\* sent the terminate signal at most once, the first signal takes the handler
\* off all three signals, and a later signal changes nothing
C24_ShutdownOnce ==
    [][(sup'.sigs = sup.sigs + 1 /\ sup.child \in {"running", "terminating"})
          => /\ sup'.kills <= 1
             /\ ~sup.finishing => sup'.listeners = {}
             /\ sup.finishing => sup' = [sup EXCEPT !.sigs = @ + 1]]_vars

\* C25: the first signal leaves the supervisor running and terminates the
\* child; the promise resolves with abrupt set exactly when a signal was
\* received; the marker is written after that and the compression after it
C25_FirstSignalHandsOff ==
    [][/\ (sup.sigs = 0 /\ sup'.sigs = 1 /\ sup.child = "running")
            => /\ sup'.pc = sup.pc
               /\ sup'.child = "terminating" /\ sup'.kills = 1
       /\ (sup.pc # "resolved" /\ sup'.pc = "resolved")
            => sup'.result = IF sup.sigs > 0 THEN "abrupt" ELSE "clean"
       /\ (sup.handoff = "none" /\ sup'.handoff # "none")
            => sup.pc = "resolved" /\ sup'.handoff = "marker"
       /\ (sup.handoff # "compress" /\ sup'.handoff = "compress")
            => sup.handoff = "marker"]_vars

\* a signal was received and the compression runs
C25_Witness ==
    /\ sup.result = "abrupt" /\ sup.sigs = 1
    /\ sup.handoff = "compress"

\* C26: a command that is not executable is rejected before any strategy
\* starts; a recorder that cannot start is logged and followed by the
\* fallback; wrapProcess rejects only for these two reasons, with an error
\* that names the path and a remedy
C26_StartFailures ==
    /\ sup.exec = "no" => (sup.pc = "rejected" /\ sup.error = NotExecutable
                           /\ sup.spawned = <<>>)
    /\ sup.scriptFailed => (sup.logged /\ sup.spawned = <<"script", "spawn">>)
    /\ sup.pc = "rejected"
         => /\ sup.error.path /\ sup.error.remedy
            /\ sup.error.kind = "spawn" => (sup.scriptFailed /\ sup.child = "failed")
            /\ sup.error.kind # "spawn" => sup.exec = "no"

\* both strategies failed to start
C26_Witness ==
    /\ sup.pc = "rejected" /\ sup.error.kind = "spawn"
    /\ sup.spawned = <<"script", "spawn">>

\* C27: the agent's environment holds none of the credential names, and the
\* recorder strategy passes env -u for each of them
C27_CredentialsStripped ==
    /\ sup.child \in {"running", "terminating", "closed"}
         => sup.agentEnv \cap MEMEX_ONLY_KEYS = {}
    /\ sup.pc = "script" => sup.unset = MEMEX_ONLY_KEYS

\* the agent runs under the recorder, with credentials in the supervisor's
\* environment and exported again by the shell profile
C27_Witness ==
    /\ sup.pc = "script" /\ sup.child = "running"
    /\ sup.env \cap MEMEX_ONLY_KEYS # {}
    /\ sup.profile \cap MEMEX_ONLY_KEYS # {}
    /\ "PATH" \in sup.agentEnv

\* the budget: maxTokens * 4 when given, else 300, 2000 or 35000 by tier
Budget(opts) ==
    IF opts.maxTokens # 0 THEN opts.maxTokens * 4
    ELSE IF opts.tier = 1 THEN 300 ELSE IF opts.tier = 2 THEN 2000 ELSE 35000

\* C28: the output of buildContext is no longer than the budget, and holds
\* the truncation notice exactly when the untruncated text exceeded it
C28_WithinBudget ==
    ctx.called =>
        /\ ctx.out.len <= Budget(ctx.opts)
        /\ ctx.out.notice <=> (TextLen(ContextText(ctx.memory, ctx.opts)) > Budget(ctx.opts))

\* the lines of text that end at or before position limit
LinesWithin(text, limit) ==
    {i \in 0..Len(text) : TextLen(SubSeq(text, 1, i)) <= limit}

\* C29: when applyLimit truncates, what it keeps ends at the last newline at
\* or before the budget, no line is cut, and the notice follows
C29_CutAtNewline ==
    (ctx.called /\ TextLen(ContextText(ctx.memory, ctx.opts)) > Budget(ctx.opts))
        => /\ ctx.out.notice
           /\ ctx.out.partial = 0
           /\ Len(ctx.out.lines) = Max(LinesWithin(ContextText(ctx.memory, ctx.opts),
                                                   Budget(ctx.opts)))

\* the focus words longer than two characters found in an item, whatever
\* the case of either
FocusScore(item, focus) ==
    Cardinality({k \in 1..Len(focus) :
                    /\ WordLen(focus[k].stem) > 2
                    /\ \E w \in item.words : w.stem = focus[k].stem})

\* item x comes before item y: higher score, or equal score and earlier
\* in the list
RanksBefore(x, y, focus) ==
    \/ FocusScore(x, focus) > FocusScore(y, focus)
    \/ FocusScore(x, focus) = FocusScore(y, focus) /\ x.at < y.at

\* the items of a list in the order the lines of a section show them
ShownOf(text, sec, list) ==
    LET OfSection(l) == l.sec = sec
        shown == SelectSeq(text, OfSection)
    IN  [i \in 1..Len(shown) |-> list[shown[i].at]]

\* the items shown for a list are its `count` first in rank, in rank order
RankedSection(text, sec, list, count, focus) ==
    LET shown == ShownOf(text, sec, list)
    IN  /\ Len(shown) = count
        /\ \A i, j \in 1..Len(shown) : i < j => RanksBefore(shown[i], shown[j], focus)
        /\ \A k \in 1..Len(list) :
              (\A i \in 1..Len(shown) : shown[i].at # k)
                 => \A i \in 1..Len(shown) : RanksBefore(shown[i], list[k], focus)

\* C30: tasks, gotchas, decisions and files appear by descending count of
\* focus keywords, ties in their original order; tier 2 shows the three
\* first of that order, and the budget cuts the text ordered so
C30_FocusOrdering ==
    ctx.called =>
        LET m     == ctx.memory
            focus == ctx.opts.focus
            tier  == IF ctx.opts.tier = 0 THEN 3 ELSE ctx.opts.tier
            text  == ContextText(m, ctx.opts)
            Top(list) == IF tier = 1 THEN 0
                         ELSE IF tier = 2 THEN Min({3, Len(list)}) ELSE Len(list)
            All(list) == IF tier = 3 THEN Len(list) ELSE 0
        IN  /\ RankedSection(text, "task", m.pendingTasks, Top(m.pendingTasks), focus)
            /\ RankedSection(text, "gotcha", m.gotchas, Top(m.gotchas), focus)
            /\ RankedSection(text, "decision", m.keyDecisions, All(m.keyDecisions), focus)
            /\ RankedSection(text, "file", m.importantFiles, All(m.importantFiles), focus)
            /\ ctx.out.lines = SubSeq(text, 1, Len(ctx.out.lines))

\* tier 2 with four tasks: a task with a focus word in capitals, listed
\* last, is shown first, and a task without one is left out
C30_Witness ==
    /\ ctx.called /\ ctx.opts.tier = 2
    /\ Len(ctx.memory.pendingTasks) = MaxItems
    /\ ctx.opts.focus = <<Word("api", FALSE)>>
    /\ ctx.memory.pendingTasks[MaxItems].words = {Word("api", TRUE)}
    /\ ctx.memory.pendingTasks[1].words = {}
    /\ ctx.memory.pendingTasks[2].words = {}
    /\ ctx.memory.pendingTasks[3].words = {}
    /\ \E i \in 1..Len(ctx.out.lines) :
          ctx.out.lines[i].sec = "task" /\ ctx.out.lines[i].at = MaxItems

\* ======================================================================
\* Webhook delivery at the end of runCompression (SpecWebhook)
\* ======================================================================

\* what a webhook URL can be set to; "" is an unset variable or a missing key
HookUrls == {"", "hooks", "http://hooks.test/in", "https://hooks.test/in", "data:a b"}

\* `new URL(url)`: throws on a string without a scheme; a scheme that is not
\* followed by "//" keeps the rest as an opaque path, spaces included
NewUrl(url) ==
    CASE url = "http://hooks.test/in"
           -> [ok |-> TRUE, protocol |-> "http:", hostname |-> "hooks.test",
               pathname |-> <<"/", "i", "n">>]
      [] url = "https://hooks.test/in"
           -> [ok |-> TRUE, protocol |-> "https:", hostname |-> "hooks.test",
               pathname |-> <<"/", "i", "n">>]
      [] url = "data:a b"
           -> [ok |-> TRUE, protocol |-> "data:", hostname |-> "",
               pathname |-> <<"a", " ", "b">>]
      [] OTHER
           -> [ok |-> FALSE, protocol |-> "", hostname |-> "", pathname |-> <<>>]

\* lib.request({..., path: parsed.pathname + parsed.search, ...}) throws
\* synchronously when the path holds a character outside \u0021-\u00ff
RequestThrows(parsed) ==
    \E i \in 1..Len(parsed.pathname) : parsed.pathname[i] = " "

\* what the network does with a request that was sent
NetOutcomes == {"refused", "timeout", "status200", "status500"}

\* .memex/config.json
HookConfigs ==
    {[exists |-> FALSE, parses |-> FALSE, webhookUrl |-> ""],
     [exists |-> TRUE,  parses |-> FALSE, webhookUrl |-> ""]}
    \cup {[exists |-> TRUE, parses |-> TRUE, webhookUrl |-> u] : u \in HookUrls}

\* MEMEX_WEBHOOK_URL when it is set and not empty, else the webhookUrl string
\* of a config.json that parses, else undefined (written "")
getWebhookUrl(env, config) ==
    IF env # "" THEN env
    ELSE IF config.exists /\ config.parses THEN config.webhookUrl
    ELSE ""

\* the promise fireWebhook returns: the executor resolves it when the URL
\* does not parse, on the response callback, on the error event and on the
\* 5 s timeout; an exception thrown by the executor itself rejects it
fireWebhook(url, net) ==
    LET parsed == NewUrl(url)
    IN  IF ~parsed.ok
        THEN [state |-> "resolved", sent |-> FALSE, answered |-> FALSE]
        ELSE IF RequestThrows(parsed)
        THEN [state |-> "rejected", sent |-> FALSE, answered |-> FALSE]
        ELSE [state |-> "resolved", sent |-> TRUE,
              answered |-> net \in {"status200", "status500"}]

\* runCompression as the user sees it: what is saved, finalized and cleared,
\* and the spinner lines printed.  out is what compressSession did.
runCompression(h, len, hasId, out, net) ==
    IF TooShort(len)
    THEN [h EXCEPT !.pc = "done", !.event = "tooShort",
                   !.finalized = hasId, !.marker = FALSE]
    ELSE IF out = "throw"
    THEN [h EXCEPT !.pc = "done", !.event = "chatFailed",
                   !.reported = <<"failed">>]
    ELSE IF out = "garbage"
    THEN [h EXCEPT !.pc = "done", !.event = "parseFailed", !.saved = TRUE,
                   !.reported = <<"failed">>]
    ELSE LET url == getWebhookUrl(h.env, h.config)
             w   == IF url # "" THEN fireWebhook(url, net)
                    ELSE [state |-> "none", sent |-> FALSE, answered |-> FALSE]
         IN  [h EXCEPT !.pc = "done", !.event = "compressed",
                       !.saved = TRUE, !.finalized = hasId, !.marker = FALSE,
                       !.webhook = w,
                       !.reported = IF w.state = "rejected"
                                    THEN <<"succeeded", "failed">>
                                    ELSE <<"succeeded">>]

InitWebhook ==
    /\ SessionInit /\ SkipIdle /\ MemIdle /\ ProcIdle
    /\ logger = LoggerIdle
    /\ proj = FilesIdle
    /\ \E env \in HookUrls, config \in HookConfigs, m \in BOOLEAN :
         hook = [HookIdle EXCEPT !.env = env, !.config = config, !.marker = m]

\* start / resume reaches `await runCompression(...)`
RunCompressionCalled ==
    /\ hook.pc = "idle"
    /\ \E len \in {MinTranscript - 1, MinTranscript}, hasId \in BOOLEAN,
          out \in {"ok", "garbage", "throw"}, net \in NetOutcomes :
         hook' = runCompression(hook, len, hasId, out, net)
    /\ UNCHANGED <<logger, proj>>
    /\ UNCHANGED <<sessionVars, failed, skipVars, memVars, procVars>>

NextWebhook == RunCompressionCalled

SpecWebhook == InitWebhook /\ [][NextWebhook]_vars

\* C31: fireWebhook settles without raising for every URL and every network
\* outcome, and a compression that saved the memory, finalized the session
\* and removed the marker is never reported as failed because of the webhook
C31_WebhookNeverFails ==
    hook.pc = "done" =>
        /\ hook.webhook.state # "rejected"
        /\ (hook.event = "compressed" => hook.reported = <<"succeeded">>)

\* C32: no step of runCompression, compressSession,
\* checkAndRunPendingCompression or runSnapshotCompression (transcript too
\* short, summarizer called, summarizer answered, answered with garbage or
\* threw, stale marker discarded) deletes or changes a raw capture file or
\* a structured session log
CompressionStep ==
    \/ ev'.type \in CheckTypes \cup {"runshort", "runlong"}
    \/ inflight' # inflight

C32_RawDataRetained ==
    [][CompressionStep =>
         /\ rawlog' = rawlog
         /\ \A s \in Sessions : JsonlExists(s)' = JsonlExists(s)]_vars

\* one recorded session was compressed, another was too short to compress,
\* the startup check removed a marker, and both raw captures are still there
C32_Witness ==
    /\ \E s \in Sessions : rawlog[s].exists /\ rawlog[s].len >= MinTranscript
                             /\ sess[s] = [st |-> "ended", summary |-> "ai"]
    /\ \E s \in Sessions : rawlog[s].exists /\ rawlog[s].len < MinTranscript
                             /\ sess[s] = [st |-> "ended", summary |-> "tooShort"]
    /\ pending.kind = "none" /\ cleared

\* ======================================================================
\* SessionLogger (SpecLogger)
\* ======================================================================

\* most characters held in the input buffer
MaxInput == 4

\* most entries logged
MaxEntries == 3

\* a character of terminal I/O is text ("a", " "), "CR", "LF", or "ESC", which
\* stands for one whole ANSI escape code

Terminators == {"CR", "LF"}

\* what String.prototype.trim removes at both ends
WhiteSpace == {" ", "CR", "LF"}

Printable(c) == c # "ESC"

NotTerminator(c) == c \notin Terminators

\* strip-ansi
stripAnsi(q) == SelectSeq(q, Printable)

\* String.prototype.trim
trim(q) ==
    LET keep == {i \in 1..Len(q) : q[i] \notin WhiteSpace}
    IN  IF keep = {} THEN <<>> ELSE SubSeq(q, Min(keep), Max(keep))

LogEntry(ts, source, text) == [ts |-> ts, source |-> source, text |-> text]

\* logOutput(raw), with ts the value of Date.now()
logOutput(L, raw, ts) ==
    LET text == trim(stripAnsi(raw))
        note == [op |-> "logOutput", input |-> raw, before |-> Len(L.buffer),
                 returned |-> <<>>]
    IN  IF text = <<>>
        THEN [L EXCEPT !.last = note]
        ELSE [L EXCEPT !.buffer = Append(@, LogEntry(ts, "agent", text)),
                       !.last = note]

\* logInput(raw), with ts the value of Date.now()
logInput(L, raw, ts) ==
    LET input == L.inputBuffer \o raw
        note  == [op |-> "logInput", input |-> input, before |-> Len(L.buffer),
                  returned |-> <<>>]
    IN  IF \E i \in 1..Len(input) : input[i] \in Terminators
        THEN LET text == trim(SelectSeq(stripAnsi(input), NotTerminator))
             IN  IF text = <<>>
                 THEN [L EXCEPT !.inputBuffer = <<>>, !.last = note]
                 ELSE [L EXCEPT !.inputBuffer = <<>>,
                                !.buffer = Append(@, LogEntry(ts, "user", text)),
                                !.last = note]
        ELSE [L EXCEPT !.inputBuffer = input, !.last = note]

RoleOf(entry) == IF entry.source = "user" THEN "user" ELSE "assistant"

\* the loop of getConversationTurns over the first n entries; a merged
\* content is the list of the texts that "\n" joins
RECURSIVE TurnsOf(_, _)
TurnsOf(buffer, n) ==
    IF n = 0 THEN <<>>
    ELSE LET turns == TurnsOf(buffer, n - 1)
             entry == buffer[n]
             role  == RoleOf(entry)
         IN  IF turns # <<>> /\ turns[Len(turns)].role = role
             THEN [turns EXCEPT ![Len(turns)].content = Append(@, entry.text)]
             ELSE Append(turns, [role |-> role, content |-> <<entry.text>>,
                                 ts |-> entry.ts])

\* variant: every entry becomes a turn of its own
ConversationTurnsUnmerged(buffer) ==
    [i \in 1..Len(buffer) |->
       [role |-> RoleOf(buffer[i]), content |-> <<buffer[i].text>>,
        ts |-> buffer[i].ts]]

ConversationTurns(buffer) == TurnsOf(buffer, Len(buffer))

\* Date.now(): every entry is logged in a later millisecond than the last
Now(L) == IF L.buffer = <<>> THEN 1 ELSE L.buffer[Len(L.buffer)].ts + 1

\* what one call is handed: a keystroke, an escape code, a line break, a
\* line with its break, two pasted lines
Chunks ==
    {<<"a">>, <<"ESC">>, <<"CR">>, <<"LF">>, <<"CR", "LF">>, <<"a", "LF">>,
     <<"ESC", "LF">>, <<"a", "LF", "a", "LF">>}

InitLogger ==
    /\ SessionInit /\ SkipIdle /\ MemIdle /\ ProcIdle
    /\ hook = HookIdle
    /\ proj = FilesIdle
    /\ logger = LoggerIdle

\* the supervisor hands a chunk of the user's keystrokes to the logger
LogInputCalled ==
    /\ Len(logger.buffer) < MaxEntries
    /\ \E raw \in Chunks :
         /\ Len(logger.inputBuffer) + Len(raw) <= MaxInput
         /\ logger' = logInput(logger, raw, Now(logger))
    /\ UNCHANGED <<hook, proj>>
    /\ UNCHANGED <<sessionVars, failed, skipVars, memVars, procVars>>

\* the supervisor hands a chunk of the agent's output to the logger
LogOutputCalled ==
    /\ Len(logger.buffer) < MaxEntries
    /\ \E raw \in Chunks :
         logger' = logOutput(logger, raw, Now(logger))
    /\ UNCHANGED <<hook, proj>>
    /\ UNCHANGED <<sessionVars, failed, skipVars, memVars, procVars>>

\* logger.getConversationTurns()
GetConversationTurnsCalled ==
    /\ logger.last.op # "getConversationTurns"
    /\ logger' = [logger EXCEPT !.last =
                     [op |-> "getConversationTurns", input |-> <<>>,
                      before |-> Len(logger.buffer),
                      returned |-> ConversationTurns(logger.buffer)]]
    /\ UNCHANGED <<hook, proj>>
    /\ UNCHANGED <<sessionVars, failed, skipVars, memVars, procVars>>

NextLogger ==
    \/ LogInputCalled
    \/ LogOutputCalled
    \/ GetConversationTurnsCalled

SpecLogger == InitLogger /\ [][NextLogger]_vars

\* the texts of the entries the last call added
Added == [i \in 1..(Len(logger.buffer) - logger.last.before) |->
            logger.buffer[logger.last.before + i]]

\* the lines of q that a terminator completes, stripped and trimmed, without
\* the empty ones
RECURSIVE CompletedLines(_)
CompletedLines(q) ==
    LET ends == {i \in 1..Len(q) : q[i] \in Terminators}
    IN  IF ends = {} THEN <<>>
        ELSE LET e    == Min(ends)
                 line == trim(stripAnsi(SubSeq(q, 1, e - 1)))
                 rest == CompletedLines(SubSeq(q, e + 1, Len(q)))
             IN  IF line = <<>> THEN rest ELSE <<line>> \o rest

\* C33: logInput adds no entry while the buffered input has no \r or \n;
\* when it has one, it adds one user entry per completed non-empty line and
\* empties the input buffer; logOutput adds one agent entry exactly when the
\* stripped and trimmed text is not empty
C33_OneEntryPerLine ==
    /\ logger.last.op = "logInput" =>
         IF \A i \in 1..Len(logger.last.input) : logger.last.input[i] \notin Terminators
         THEN Added = <<>> /\ logger.inputBuffer = logger.last.input
         ELSE /\ logger.inputBuffer = <<>>
              /\ Len(Added) = Len(CompletedLines(logger.last.input))
              /\ \A i \in 1..Len(Added) :
                    /\ Added[i].source = "user"
                    /\ Added[i].text = CompletedLines(logger.last.input)[i]
    /\ logger.last.op = "logOutput" =>
         /\ Len(Added) = IF trim(stripAnsi(logger.last.input)) = <<>> THEN 0 ELSE 1
         /\ \A i \in 1..Len(Added) : Added[i].source = "agent"

\* the entries that open a run: the first, and each whose role differs from
\* the role of the entry before it
RunStarts(B) == {i \in 1..Len(B) : i = 1 \/ RoleOf(B[i]) # RoleOf(B[i - 1])}

\* the last entry of the run that opens at entry i
RunEnd(B, i) ==
    Min({j \in i..Len(B) : j = Len(B) \/ RoleOf(B[j + 1]) # RoleOf(B[i])})

\* the k-th smallest element of S
Nth(S, k) == CHOOSE x \in S : Cardinality({y \in S : y <= x}) = k

\* T is the list of the maximal same-source runs of B
Collapses(T, B) ==
    /\ Len(T) = Cardinality(RunStarts(B))
    /\ \A k \in 1..Len(T) :
         LET i == Nth(RunStarts(B), k)
         IN  /\ T[k].role = (IF B[i].source = "user" THEN "user" ELSE "assistant")
             /\ T[k].ts = B[i].ts
             /\ T[k].content = [j \in 1..(RunEnd(B, i) - i + 1) |-> B[i + j - 1].text]

\* C34: getConversationTurns returns one turn per maximal run of consecutive
\* entries of the same source, with the run's texts joined in order and the
\* timestamp of the run's first entry, so that no two adjacent turns have
\* the same role; the call leaves the entry buffer as it was
C34_TurnsCollapseRuns ==
    [][logger'.last.op = "getConversationTurns" =>
         LET T == logger'.last.returned
         IN  /\ logger'.buffer = logger.buffer
             /\ logger'.inputBuffer = logger.inputBuffer
             /\ Collapses(T, logger.buffer)
             /\ \A k \in 1..(Len(T) - 1) : T[k].role # T[k + 1].role]_vars

\* two user entries and an agent entry were collapsed into two turns
C34_Witness ==
    /\ logger.last.op = "getConversationTurns"
    /\ Len(logger.buffer) = 3
    /\ Len(logger.last.returned) = 2
    /\ Len(logger.last.returned[1].content) = 2
    /\ logger.last.returned[1].role = "user"

\* C35: setFocus with the topic that is the current focus leaves the
\* database as it was (currentFocus, focusHistory, and no saveMemory that
\* would stamp lastUpdated), and a setFocus repeated with its own topic
\* changes nothing any more, so focusHistory does not grow
C35_SameFocusNoOp ==
    [][outcome'.kind = "setFocus" =>
         /\ (db.exists /\ outcome'.next = db.focus) => db' = db
         /\ setFocus(db', outcome'.next) = db']_vars

\* the focus command has named the current focus, which is not in the history
C35_Witness ==
    /\ outcome.kind = "setFocus" /\ outcome.reason = "same"
    /\ db.focus = outcome.next /\ db.focus # 0
    /\ db.history # <<>>
    /\ db.focus \notin Range(db.history)

\* C36: while the wrapped process of the session runs, the active-session
\* marker exists and names that session, and no step taken meanwhile by
\* another command removes or replaces it
C36_MarkerWhileRunning ==
    /\ [](pc["cli"] = "running" => (active.kind = "marker" /\ active.sid = sid))
    /\ [][(pc["cli"] = "running" /\ pc'["cli"] = "running") => active' = active]_vars

\* ======================================================================
\* The project files `memex resume` touches (SpecResume)
\* ======================================================================

File(text) == [exists |-> TRUE, text |-> text]

\* fs.existsSync(claudeMdPath) ? fs.readFileSync(claudeMdPath) : null, with
\* null written NoFile
ReadOrNull(f) == IF f.exists THEN f ELSE NoFile

\* memexSection + existing, where existing is "" for a missing and for an
\* empty CLAUDE.md
Injected(original) ==
    File(<<"MEMEX_CONTEXT">> \o (IF original.exists /\ original.text # <<>>
                                   THEN original.text ELSE <<>>))

\* the finally block: rmSync when originalClaudeMd === null, else write it back
RestoreClaudeMd(p) ==
    IF p.injectedViaClaudeMd
    THEN (IF ~p.originalClaudeMd.exists THEN NoFile ELSE p.originalClaudeMd)
    ELSE p.claudeMd

\* writeMcpJson: a file that does not parse is started afresh; the memex
\* entry is added or replaced, the other entries stay
writeMcpJson(m) ==
    [exists |-> TRUE, parses |-> TRUE,
     servers |-> (IF m.exists /\ m.parses THEN m.servers ELSE {}) \cup {"memex"}]

\* removeMcpJson: delete the memex entry; delete the file when no entry is
\* left or when it does not parse
removeMcpJson(m) ==
    IF ~m.exists THEN m
    ELSE IF ~m.parses THEN NoMcpJson
    ELSE IF m.servers \ {"memex"} = {} THEN NoMcpJson
    ELSE [m EXCEPT !.servers = @ \ {"memex"}]

\* resume up to `await checkAndRunPendingCompression`: context injection
resumeInjects(p, command, mcp, memory) ==
    LET useMcp  == command = "claude" /\ mcp
        inject  == memory /\ (useMcp \/ command = "claude")
    IN  [p EXCEPT
           !.pc = "running", !.command = command, !.useMcp = useMcp,
           !.memory = memory,
           !.before = [claudeMd |-> p.claudeMd, mcpJson |-> p.mcpJson],
           !.originalClaudeMd = IF inject THEN ReadOrNull(p.claudeMd) ELSE NoFile,
           !.claudeMd = IF inject THEN Injected(ReadOrNull(p.claudeMd)) ELSE @,
           !.injectedViaClaudeMd = inject,
           !.resumeMd = (memory /\ ~useMcp) \/ @,
           !.mcpJson = IF memory /\ useMcp THEN writeMcpJson(@) ELSE @,
           !.wroteProjectMcpJson = memory /\ useMcp]

\* the finally block of resume
resumeFinally(p, path) ==
    [p EXCEPT
       !.pc = "done", !.path = path,
       !.claudeMd = RestoreClaudeMd(p),
       !.mcpJson = IF p.wroteProjectMcpJson THEN removeMcpJson(@) ELSE @,
       !.resumeMd = FALSE]

McpJsonInputs ==
    {NoMcpJson} \cup {[exists |-> TRUE, parses |-> FALSE, servers |-> {}]}
    \cup {[exists |-> TRUE, parses |-> TRUE, servers |-> S] : S \in SUBSET {"github"}}

InitResume ==
    /\ SessionInit /\ SkipIdle /\ MemIdle /\ ProcIdle
    /\ hook = HookIdle
    /\ logger = LoggerIdle
    /\ \E c \in {NoFile, File(<<>>), File(<<"notes">>)}, r \in BOOLEAN,
          m \in McpJsonInputs :
         proj = [FilesIdle EXCEPT !.claudeMd = c, !.resumeMd = r, !.mcpJson = m]

\* memex setup-mcp (project scope): writeMcpJson(projectPath, projectPath)
SetupMcp ==
    /\ proj.pc = "idle"
    /\ "memex" \notin proj.mcpJson.servers
    /\ proj' = [proj EXCEPT !.mcpJson = writeMcpJson(@)]
    /\ UNCHANGED <<hook, logger>>
    /\ UNCHANGED <<sessionVars, failed, skipVars, memVars, procVars>>

\* memex resume <command> [--no-mcp], up to the start of the agent
ResumeStarts ==
    /\ proj.pc = "idle"
    /\ \E command \in {"claude", "aider"}, mcp \in BOOLEAN, memory \in BOOLEAN :
         proj' = resumeInjects(proj, command, mcp, memory)
    /\ UNCHANGED <<hook, logger>>
    /\ UNCHANGED <<sessionVars, failed, skipVars, memVars, procVars>>

\* wrapProcess resolves and the compression succeeds or fails, or
\* wrapProcess rejects; in each case the finally block runs
ResumeFinishes ==
    /\ proj.pc = "running"
    /\ \E path \in {"normal", "compressionFailed", "wrapProcessFailed"} :
         proj' = resumeFinally(proj, path)
    /\ UNCHANGED <<hook, logger>>
    /\ UNCHANGED <<sessionVars, failed, skipVars, memVars, procVars>>

NextResume ==
    \/ SetupMcp
    \/ ResumeStarts
    \/ ResumeFinishes

SpecResume == InitResume /\ [][NextResume]_vars

\* C37: when resume has finished, on any path, CLAUDE.md is what it was
\* before the command (or absent again), RESUME.md is gone, and .mcp.json
\* still has every server entry it had before the command, a memex entry
\* written by setup-mcp included
C37_ResumeRestoresFiles ==
    proj.pc = "done" =>
        /\ proj.claudeMd = proj.before.claudeMd
        /\ ~proj.resumeMd
        /\ proj.before.mcpJson.servers \subseteq proj.mcpJson.servers

\* C38: when wrapProcess has settled, resolved or rejected, no
\* gracefulShutdown listener is registered on SIGHUP, SIGTERM or SIGINT any
\* more, and the fallback strategy starts with none left by the recorder
\* strategy that failed
C38_NoListenerLeft ==
    /\ sup.leftover = {}
    /\ sup.pc \in {"resolved", "rejected"} => sup.listeners = {}

\* the recorder failed to start, the fallback ran the child and resolved
C38_Witness ==
    /\ sup.pc = "resolved" /\ sup.scriptFailed
    /\ sup.spawned = <<"script", "spawn">>
    /\ sup.listeners = {}

====
